---- MODULE Spec2Model ----
(***************************************************************************)
(* Junkdrawer: the search sidecar's health as seen by the application.     *)
(*                                                                         *)
(* Part I   the client warning gate: the effect of NotesWorkspace that     *)
(*          turns the serverStatus stream into the "Search is temporarily  *)
(*          unavailable" banner (src/components/NotesWorkspace.tsx).       *)
(* Part II  the Supervisor of the sidecar process.  Its implementation     *)
(*          (src-tauri/src/typesense.rs) is not among the sources; it is   *)
(*          modelled from the design document, and reached through the     *)
(*          client functions of src/lib/typesense.ts.                      *)
(*                                                                         *)
(* Part III the subscriptions to the "typesense-server-status" event:      *)
(*          onTypesenseStatusUpdate (src/lib/typesense.ts), the effect of  *)
(*          useTypesense (src/lib/useTypesense.ts) and that of App         *)
(*          (src/App.tsx), over an event bus modelled from the design      *)
(*          document's StatusBroadcaster.                                  *)
(*                                                                         *)
(* Part IV  the useTypesense hook (src/lib/useTypesense.ts): its state     *)
(*          under status events and start, stop, check and refresh calls.  *)
(*                                                                         *)
(* Part V   autosave in NotesWorkspace: the draft-sync and autosave        *)
(*          effects under edits, selection, timers and updateItem answers. *)
(*                                                                         *)
(* Time is counted in milliseconds and advances in steps of TickMs.        *)
(***************************************************************************)
EXTENDS Integers, Sequences, FiniteSets, TLC

VARIABLES
    \* ---- Part I: NotesWorkspace warning effect ----
    now,                    \* wall clock, ms since mount
    typesenseWarningDelayMs,\* the prop (fixed for the life of the component)
    serverStatus,           \* useTypesense().serverStatus
    showTypesenseWarning,   \* React state
    warningTimeoutRef,      \* warningTimeoutRef.current: 0 is null, else a timer id
    timers,                 \* window timers pending: set of [id, due]
    nextTimerId,            \* id the next window.setTimeout returns
    effectCleanup,          \* the last run of the effect returned its cleanup
    statusLog,              \* history: the status changes seen, with their times
    unhealthySince,         \* history: start of the current is_healthy=false streak, -1 if none
    \* ---- Part II: Supervisor and the client functions ----
    tauri,                  \* isTauriEnvironment()
    supState,               \* SupervisorState
    record,                 \* the ProcessRecord held (its pid), 0 when none
    alive,                  \* pids of the sidecar processes alive in the OS
    nextPid,                \* pid the next spawn gets
    failures,               \* consecutive failed probes
    threshold,              \* configured consecutive-failure threshold M
    emitted,                \* statuses published to the StatusBroadcaster, in order
    probePid,               \* pid an in-flight probe was started for, 0 when none
    spawning,               \* start() holds the lock between entering Starting and spawn's result
    hist,                   \* history: the last two start/stop calls and their results
    failRun,                \* history: effect of each failed probe since the state was last Running
    lastProbe,              \* history: what became of the last probe result that came back
    \* ---- Part III: the subscriptions to "typesense-server-status" ----
    second,                 \* the subscriber besides useTypesense: "App" or "caller"
    published,              \* the ServerStatus payloads emitted, in order
    listeners,              \* the subscribers with a listener registered
    queues,                 \* per subscriber, the events emitted and not yet handled
    subs,                   \* per subscriber, its subscription and what its callback got
    \* ---- Part IV: the useTypesense hook ----
    hook,                   \* its state: isRunning, isLoading, error, serverStatus
    calls,                  \* per operation, the call in flight and the commands it issued
    backendUp,              \* the backend has a server started
    last,                   \* history: the last call or event that completed
    \* ---- Part V: autosave in NotesWorkspace ----
    clock,                  \* wall clock, ms since the items were loaded
    notes,                  \* the list of items
    selectedId,             \* 0 is null
    ws,                     \* draft, saveState, error and the autosave timers
    inflight,               \* updateItem calls not yet answered
    nextRev,                \* identity of the next item object the backend returns
    edits,                  \* history: number of edits made
    lastEdit,               \* history: the last edit, and the calls made since
    lastCall,               \* history: the last updateItem call
    listCalls               \* createItem, createBookmark and deleteItem calls not yet answered

gateVars == <<now, typesenseWarningDelayMs, serverStatus, showTypesenseWarning,
              warningTimeoutRef, timers, nextTimerId, effectCleanup,
              statusLog, unhealthySince>>

supVars == <<tauri, supState, record, alive, nextPid, failures, threshold,
             emitted, probePid, spawning, hist, failRun, lastProbe>>

subVars == <<second, published, listeners, queues, subs>>

hookVars == <<hook, calls, backendUp, last>>

noteVars == <<clock, notes, selectedId, ws, inflight, nextRev, edits, lastEdit, lastCall,
              listCalls>>

vars == <<gateVars, supVars, subVars, hookVars, noteVars>>

-----------------------------------------------------------------------------
(* Bounds and constants *)

TYPESENSE_WARNING_DELAY_MS == 10000
\* the clock's granularity, and a second, shorter delay a caller may configure
TickMs == TYPESENSE_WARNING_DELAY_MS \div 10
ShortDelayMs == 3 * TickMs
MaxTime == 17000
MaxStatusChanges == 3
DefaultFailureThreshold == 3
StartupAttempts == 2
MaxSpawns == 2
MaxEmitted == 4
MaxPublished == 3
MaxDisposeCalls == 2
AUTOSAVE_DELAY_MS == 500
NoteTickMs == AUTOSAVE_DELAY_MS \div 2
MaxNoteTime == 1500
MaxEdits == 2
MaxListCalls == 1
MaxListTime == 1000

Delays == {TYPESENSE_WARNING_DELAY_MS, ShortDelayMs}
Messages == {"Typesense offline", "Typesense server is healthy"}

-----------------------------------------------------------------------------
(* Part I: the warning gate *)

\* ServerStatus | null.  present = FALSE is null.
NoStatus == [present |-> FALSE, is_healthy |-> FALSE, message |-> ""]
ServerStatus == [present : {TRUE}, is_healthy : BOOLEAN, message : Messages]

\* serverStatus?.is_healthy, the first dependency of the effect
IsHealthyDep(s) ==
    IF ~s.present THEN "undefined" ELSE IF s.is_healthy THEN "true" ELSE "false"

\* The component's mutable pieces the effect reads and writes, as one record.
GateOf(show, ref, tm, nid, cl) ==
    [show |-> show, ref |-> ref, timers |-> tm, nextId |-> nid, cleanup |-> cl]

\* window.clearTimeout(id)
ClearTimeout(tm, id) == {t \in tm : t.id # id}

SetTimeoutNoDelay(tm, id, t, delay) == tm \cup {[id |-> id, due |-> t]}

\* window.setTimeout(cb, delay) at time t: the timer is due at t + delay
SetTimeout(tm, id, t, delay) == tm \cup {[id |-> id, due |-> t + delay]}

EffectCleanupKeepsTimer(g) == [g EXCEPT !.ref = 0, !.cleanup = FALSE]

\* The cleanup returned by the effect (lines 211-216), run before the effect
\* runs again, if the previous run returned it.
EffectCleanupRun(g) ==
    IF g.cleanup /\ g.ref # 0
    THEN [g EXCEPT !.timers = ClearTimeout(g.timers, g.ref), !.ref = 0, !.cleanup = FALSE]
    ELSE [g EXCEPT !.cleanup = FALSE]

EffectResetKeepsBanner(g) ==
    [g EXCEPT !.timers = IF g.ref # 0 THEN ClearTimeout(g.timers, g.ref) ELSE g.timers,
              !.ref = 0,
              !.cleanup = FALSE]

\* The healthy branch of the effect (lines 189-196): cancel and hide.
EffectReset(g) ==
    [g EXCEPT !.timers = IF g.ref # 0 THEN ClearTimeout(g.timers, g.ref) ELSE g.timers,
              !.ref = 0,
              !.show = FALSE,
              !.cleanup = FALSE]

\* The arming branch of the effect (lines 206-216): start the timer.
EffectArm(g, delay, t) ==
    [g EXCEPT !.timers = SetTimeout(g.timers, g.nextId, t, delay),
              !.ref = g.nextId,
              !.nextId = g.nextId + 1,
              !.cleanup = TRUE]

EffectBodyArmsOnNull(g, dep, delay, t) ==
    IF dep = "true" THEN EffectReset(g)
    ELSE IF g.show THEN [g EXCEPT !.cleanup = FALSE]
    ELSE IF g.ref # 0 THEN [g EXCEPT !.cleanup = FALSE]
    ELSE EffectArm(g, delay, t)

EffectBodyRearms(g, dep, delay, t) ==
    IF dep # "false" THEN EffectReset(g)
    ELSE IF g.ref # 0 THEN [g EXCEPT !.cleanup = FALSE]
    ELSE EffectArm(g, delay, t)

\* The effect body (lines 188-217), run at time t with the rendered values
\* dep (serverStatus?.is_healthy) and g.show (showTypesenseWarning).
EffectBody(g, dep, delay, t) ==
    IF dep # "false" THEN EffectReset(g)
    ELSE IF g.show THEN [g EXCEPT !.cleanup = FALSE]
    ELSE IF g.ref # 0 THEN [g EXCEPT !.cleanup = FALSE]
    ELSE EffectArm(g, delay, t)

RenderRunsEveryTime(g, prevDeps, dep, delay, t) ==
    EffectBody(EffectCleanupRun(g), dep, delay, t)

\* React: after a render, the effect runs when a dependency differs from the
\* one of its previous run; a state change made by the effect renders again.
RECURSIVE Render(_, _, _, _, _)
Render(g, prevDeps, dep, delay, t) ==
    LET deps == <<dep, g.show, delay>> IN
    IF deps = prevDeps THEN g
    ELSE Render(EffectBody(EffectCleanupRun(g), dep, delay, t), deps, dep, delay, t)

\* The timer callback (lines 206-209)
TimerCallback(g, id) ==
    [g EXCEPT !.show = TRUE, !.ref = 0, !.timers = ClearTimeout(g.timers, id)]

Gate == GateOf(showTypesenseWarning, warningTimeoutRef, timers, nextTimerId, effectCleanup)

SetGate(g) ==
    /\ showTypesenseWarning' = g.show
    /\ warningTimeoutRef' = g.ref
    /\ timers' = g.timers
    /\ nextTimerId' = g.nextId
    /\ effectCleanup' = g.cleanup

\* history of the observed status stream
LogStatus(s, t) == Append(statusLog, [h |-> IsHealthyDep(s), at |-> t])

StreakStart(s, t) ==
    IF IsHealthyDep(s) = "false"
    THEN (IF unhealthySince = -1 THEN t ELSE unhealthySince)
    ELSE -1

\* Mount: first render with the status useTypesense has, then the effect.
GateMount ==
    /\ now = 0
    /\ typesenseWarningDelayMs \in Delays
    /\ serverStatus \in {NoStatus} \cup ServerStatus
    /\ LET g == Render(GateOf(FALSE, 0, {}, 1, FALSE), <<"unmounted", FALSE, 0>>,
                       IsHealthyDep(serverStatus), typesenseWarningDelayMs, 0)
       IN /\ showTypesenseWarning = g.show
          /\ warningTimeoutRef = g.ref
          /\ timers = g.timers
          /\ nextTimerId = g.nextId
          /\ effectCleanup = g.cleanup
    /\ statusLog = <<[h |-> IsHealthyDep(serverStatus), at |-> 0]>>
    /\ unhealthySince = IF IsHealthyDep(serverStatus) = "false" THEN 0 ELSE -1

\* useTypesense hands a new serverStatus to the component (a status event,
\* or null after stopServer); the component renders and its effects run.
StatusChange(s) ==
    /\ Len(statusLog) < MaxStatusChanges
    /\ s # serverStatus
    /\ serverStatus' = s
    /\ SetGate(Render(Gate,
                      <<IsHealthyDep(serverStatus), showTypesenseWarning, typesenseWarningDelayMs>>,
                      IsHealthyDep(s), typesenseWarningDelayMs, now))
    /\ statusLog' = LogStatus(s, now)
    /\ unhealthySince' = StreakStart(s, now)
    /\ UNCHANGED <<now, typesenseWarningDelayMs>>

\* A due window timer fires: its callback runs, the component renders and its
\* effects run.
TimerFire ==
    \E tmr \in timers :
        /\ tmr.due <= now
        /\ SetGate(Render(TimerCallback(Gate, tmr.id),
                          <<IsHealthyDep(serverStatus), showTypesenseWarning, typesenseWarningDelayMs>>,
                          IsHealthyDep(serverStatus), typesenseWarningDelayMs, now))
        /\ UNCHANGED <<now, typesenseWarningDelayMs, serverStatus, statusLog, unhealthySince>>

\* Time passes.  A due timer runs before the clock moves on.
Tick ==
    /\ now + TickMs <= MaxTime
    /\ \A tmr \in timers : tmr.due > now
    /\ now' = now + TickMs
    /\ UNCHANGED <<typesenseWarningDelayMs, serverStatus, showTypesenseWarning,
                   warningTimeoutRef, timers, nextTimerId, effectCleanup,
                   statusLog, unhealthySince>>

\* The component alone, before any status has arrived (Part II's start).
GateIdle ==
    /\ now = 0
    /\ typesenseWarningDelayMs = TYPESENSE_WARNING_DELAY_MS
    /\ serverStatus = NoStatus
    /\ showTypesenseWarning = FALSE
    /\ warningTimeoutRef = 0
    /\ timers = {}
    /\ nextTimerId = 1
    /\ effectCleanup = FALSE
    /\ statusLog = <<[h |-> "undefined", at |-> 0]>>
    /\ unhealthySince = -1

-----------------------------------------------------------------------------
(* Part II: the Supervisor (from the design document) behind the client    *)
(* functions startTypesenseServer / stopTypesenseServer (from the source)  *)

SupervisorStates == {"Stopped", "Starting", "Running", "Degraded", "Stopping", "Failed"}

\* the externally visible health classification of a state
HealthyClass(st) == st \in {"Running", "Starting"}

\* states in which the health-check loop probes
ProbingStates == {"Starting", "Running", "Degraded"}

Thresholds == {DefaultFailureThreshold - 1, DefaultFailureThreshold}

\* ProcessHandle.spawn: success, or one of the SpawnErrors
SpawnOutcomes == {"ok", "BinaryNotFound", "PortInUse", "OSFailure"}

\* what the network does with one probe request
NetOutcomes == {"success", "refused", "bad-response", "no-response"}

\* HealthProbe.check: classify one request's outcome
Check(net) ==
    CASE net = "success"      -> [healthy |-> TRUE,  reason |-> "healthy"]
      [] net = "refused"      -> [healthy |-> FALSE, reason |-> "unreachable"]
      [] net = "bad-response" -> [healthy |-> FALSE, reason |-> "bad-response"]
      [] net = "no-response"  -> [healthy |-> FALSE, reason |-> "timeout"]

EmitAlways(em, old, new, msg) ==
    Append(em, [is_healthy |-> HealthyClass(new), message |-> msg])

\* StatusBroadcaster.publish on a transition old -> new: one ServerStatus when
\* the health classification changes, none otherwise.
Emit(em, old, new, msg) ==
    IF HealthyClass(old) # HealthyClass(new)
    THEN Append(em, [is_healthy |-> HealthyClass(new), message |-> msg])
    ELSE em

\* start() is accepted from Stopped and from Failed only
StartAccepted(st) == st \in {"Stopped", "Failed"}

ProbeStepKeepsCount(st, n, m, healthy) ==
    CASE st = "Starting" /\ healthy  -> [state |-> "Running", failures |-> 0]
      [] st = "Starting" /\ ~healthy ->
            IF n + 1 >= StartupAttempts
            THEN [state |-> "Failed", failures |-> n + 1]
            ELSE [state |-> "Starting", failures |-> n + 1]
      [] st = "Running" /\ healthy   -> [state |-> "Running", failures |-> n]
      [] st = "Running" /\ ~healthy  -> [state |-> "Degraded", failures |-> n + 1]
      [] st = "Degraded" /\ healthy  -> [state |-> "Running", failures |-> n]
      [] st = "Degraded" /\ ~healthy ->
            IF n + 1 >= m
            THEN [state |-> "Failed", failures |-> n + 1]
            ELSE [state |-> "Degraded", failures |-> n + 1]

ProbeStepFailsAtOnce(st, n, m, healthy) ==
    CASE st = "Starting" /\ healthy  -> [state |-> "Running", failures |-> 0]
      [] st = "Starting" /\ ~healthy -> [state |-> "Failed", failures |-> n + 1]
      [] st = "Running" /\ healthy   -> [state |-> "Running", failures |-> 0]
      [] st = "Running" /\ ~healthy  -> [state |-> "Failed", failures |-> 1]
      [] st = "Degraded" /\ healthy  -> [state |-> "Running", failures |-> 0]
      [] st = "Degraded" /\ ~healthy -> [state |-> "Failed", failures |-> n + 1]

\* The state machine's probe rows: state st with n consecutive failures so
\* far, threshold m, and one more probe result.
ProbeStep(st, n, m, healthy) ==
    CASE st = "Starting" /\ healthy  -> [state |-> "Running", failures |-> 0]
      [] st = "Starting" /\ ~healthy ->
            IF n + 1 >= StartupAttempts
            THEN [state |-> "Failed", failures |-> n + 1]
            ELSE [state |-> "Starting", failures |-> n + 1]
      [] st = "Running" /\ healthy   -> [state |-> "Running", failures |-> 0]
      [] st = "Running" /\ ~healthy  -> [state |-> "Degraded", failures |-> 1]
      [] st = "Degraded" /\ healthy  -> [state |-> "Running", failures |-> 0]
      [] st = "Degraded" /\ ~healthy ->
            IF n + 1 >= m
            THEN [state |-> "Failed", failures |-> n + 1]
            ELSE [state |-> "Degraded", failures |-> n + 1]

AliveAfterLeaks(st, al, rec) == al

\* Entering Failed gives the process up: ProcessHandle.terminate (graceful
\* stop, then force-kill) has ended it before the state is Failed.
AliveAfter(st, al, rec) == IF st = "Failed" THEN al \ {rec} ELSE al

SpawnStepIgnoresError(st, outcome) == st

\* start() once ProcessHandle.spawn has returned: a SpawnError ends the
\* attempt in Failed, a ProcessRecord leaves the state Starting.
SpawnStep(st, outcome) == IF outcome = "ok" THEN st ELSE "Failed"

TerminationAssumed(rec, al) == TRUE

\* the process of the ProcessRecord is confirmed terminated
TerminationConfirmed(rec, al) == rec \notin al

LockHeldByProbe(sp, pp) == ~sp /\ pp = 0

\* The lock on {state, ProcessRecord} is free for start() and stop(): start()
\* holds it until spawn has returned (sp); a probe in flight (pp) does not.
LockFree(sp, pp) == ~sp

ProbeAppliesStale(st, rec, pp) == st \in ProbingStates

\* A probe result is applied only if, when it is back and the lock is taken,
\* the state is still a probing one and the probed process is the current one.
ProbeApplies(st, rec, pp) == st \in ProbingStates /\ rec = pp

\* current_status(): the latest ServerStatus; before any emission, that of
\* the initial state Stopped.
CurrentStatus(em) ==
    IF em = <<>> THEN [is_healthy |-> FALSE, message |-> "stopped"]
    ELSE em[Len(em)]

\* ---- the client functions (src/lib/typesense.ts) ----

Resolved == [ok |-> TRUE, message |-> ""]
Rejected(msg) == [ok |-> FALSE, message |-> msg]
Pending == [ok |-> FALSE, message |-> "(pending)"]

StartClientSwallows(inTauri, backend) == Resolved

StopClientSwallows(inTauri, backend) == Resolved

\* startTypesenseServer, given what invoke("start_typesense_server") does
startTypesenseServer(inTauri, backend) ==
    IF ~inTauri THEN Resolved
    ELSE IF backend = "ok" THEN Resolved
    ELSE Rejected("Failed to start Typesense server: " \o backend)

\* stopTypesenseServer, given what invoke("stop_typesense_server") does
stopTypesenseServer(inTauri, backend) ==
    IF ~inTauri THEN Resolved
    ELSE IF backend = "ok" THEN Resolved
    ELSE Rejected("Failed to stop Typesense server: " \o backend)

\* ---- history ----

\* one client call: the state it found, what it returned, whether it changed
\* the Supervisor, and how many statuses had been emitted before it
Call(op, before, result, changed) ==
    [op |-> op, before |-> before, result |-> result, changed |-> changed,
     emLen |-> Len(emitted)]

SupChanged ==
    <<supState, record, alive, nextPid, emitted>>' # <<supState, record, alive, nextPid, emitted>>

Push(h, e) == IF Len(h) < 2 THEN Append(h, e) ELSE <<h[2], e>>

SetLast(h, e) == [h EXCEPT ![Len(h)] = e]

\* ---- initial state ----

SupStart ==
    /\ tauri \in BOOLEAN
    /\ supState = "Stopped"
    /\ record = 0
    /\ alive = {}
    /\ nextPid = 1
    /\ failures = 0
    /\ threshold \in Thresholds
    /\ emitted = <<>>
    /\ probePid = 0
    /\ spawning = FALSE
    /\ hist = <<>>
    /\ failRun = <<>>
    /\ lastProbe = "none"

\* The Supervisor not started (Part I's start).
SupIdle ==
    /\ tauri = TRUE
    /\ supState = "Stopped"
    /\ record = 0
    /\ alive = {}
    /\ nextPid = 1
    /\ failures = 0
    /\ threshold = DefaultFailureThreshold
    /\ emitted = <<>>
    /\ probePid = 0
    /\ spawning = FALSE
    /\ hist = <<>>
    /\ failRun = <<>>
    /\ lastProbe = "none"

\* ---- operations ----

\* startTypesenseServer() -> start(): refused unless Stopped or Failed; else
\* the state becomes Starting and ProcessHandle.spawn is invoked.
StartServer ==
    /\ LockFree(spawning, probePid)
    /\ IF ~tauri \/ ~StartAccepted(supState)
       THEN UNCHANGED <<supState, emitted, failures, spawning, failRun>>
       ELSE /\ nextPid <= MaxSpawns
            /\ Len(emitted) < MaxEmitted - 1
            /\ supState' = "Starting"
            /\ emitted' = Emit(emitted, supState, "Starting", "starting")
            /\ failures' = 0
            /\ spawning' = TRUE
            /\ failRun' = <<>>
    /\ UNCHANGED <<tauri, record, alive, nextPid, threshold, probePid, lastProbe>>
    /\ hist' = Push(hist, Call("start", supState,
                    IF ~tauri THEN startTypesenseServer(FALSE, "ok")
                    ELSE IF ~StartAccepted(supState)
                         THEN startTypesenseServer(TRUE, "AlreadyRunningError")
                         ELSE Pending,
                    SupChanged))

\* ProcessHandle.spawn returns inside start(): a fresh ProcessRecord, or a
\* SpawnError, which ends the start attempt in Failed.
SpawnResult(outcome) ==
    /\ spawning
    /\ spawning' = FALSE
    /\ hist' = SetLast(hist, [hist[Len(hist)] EXCEPT
                                 !.result = startTypesenseServer(tauri, outcome)])
    /\ supState' = SpawnStep(supState, outcome)
    /\ IF outcome = "ok"
       THEN /\ record' = nextPid
            /\ alive' = alive \cup {nextPid}
            /\ nextPid' = nextPid + 1
            /\ UNCHANGED emitted
       ELSE /\ emitted' = Emit(emitted, supState, SpawnStep(supState, outcome), outcome)
            /\ UNCHANGED <<record, alive, nextPid>>
    /\ UNCHANGED <<tauri, failures, threshold, probePid, failRun, lastProbe>>

\* stopTypesenseServer() -> stop(): NotRunningError when Stopped; from
\* Starting, Running or Degraded the state becomes Stopping and the process
\* is told to terminate; otherwise nothing is left to do.
StopServer ==
    /\ LockFree(spawning, probePid)
    /\ IF tauri /\ supState \in ProbingStates
       THEN /\ Len(emitted) < MaxEmitted
            /\ supState' = "Stopping"
            /\ emitted' = Emit(emitted, supState, "Stopping", "stopping")
            /\ failRun' = <<>>
       ELSE UNCHANGED <<supState, emitted, failRun>>
    /\ UNCHANGED <<tauri, record, alive, nextPid, failures, threshold, probePid, spawning,
                   lastProbe>>
    /\ hist' = Push(hist, Call("stop", supState,
                    IF ~tauri THEN stopTypesenseServer(FALSE, "ok")
                    ELSE IF supState = "Stopped"
                         THEN stopTypesenseServer(TRUE, "NotRunningError")
                         ELSE stopTypesenseServer(TRUE, "ok"),
                    SupChanged))

\* The sidecar process ends by itself: it crashes, or it exits on the graceful
\* stop signal.  Nothing obliges it to.
ProcessExit ==
    /\ \E p \in alive : alive' = alive \ {p}
    /\ UNCHANGED <<tauri, supState, record, nextPid, failures, threshold, emitted,
                   probePid, spawning, hist, failRun, lastProbe>>

\* ProcessHandle.terminate's fallback: the graceful stop raised a
\* TerminateError or the grace period ran out with the process still alive,
\* and the process is force-killed.
ForceKill ==
    /\ supState = "Stopping"
    /\ record \in alive
    /\ alive' = alive \ {record}
    /\ UNCHANGED <<tauri, supState, record, nextPid, failures, threshold, emitted,
                   probePid, spawning, hist, failRun, lastProbe>>

\* Stopping -> Stopped once the process is confirmed terminated; the
\* ProcessRecord is destroyed.
ConfirmTerminated ==
    /\ supState = "Stopping"
    /\ TerminationConfirmed(record, alive)
    /\ supState' = "Stopped"
    /\ record' = 0
    /\ emitted' = Emit(emitted, supState, "Stopped", "stopped")
    /\ UNCHANGED <<tauri, alive, nextPid, failures, threshold, probePid, spawning,
                   hist, failRun, lastProbe>>

\* The health-check loop starts a probe of the current process, off the lock.
ProbeBegin ==
    /\ supState \in ProbingStates
    /\ ~spawning
    /\ record # 0
    /\ probePid = 0
    /\ probePid' = record
    /\ UNCHANGED <<tauri, supState, record, alive, nextPid, failures, threshold,
                   emitted, spawning, hist, failRun, lastProbe>>

\* The probe returns and the loop takes the lock.  The result is applied if
\* ProbeApplies, and dropped otherwise; entering Failed terminates the process.
ProbeEnd(net) ==
    /\ probePid # 0
    /\ ~spawning
    /\ (probePid \notin alive => net \in {"refused", "no-response"})
    /\ probePid' = 0
    /\ lastProbe' = IF ProbeApplies(supState, record, probePid)
                    THEN "applied" ELSE "discarded"
    /\ IF ProbeApplies(supState, record, probePid)
       THEN LET res  == Check(net)
                step == ProbeStep(supState, failures, threshold, res.healthy)
                em   == Emit(emitted, supState, step.state, res.reason)
            IN /\ Len(em) <= MaxEmitted
               /\ supState' = step.state
               /\ failures' = step.failures
               /\ emitted' = em
               /\ alive' = AliveAfter(step.state, alive, record)
               /\ record' = IF step.state = "Failed" THEN 0 ELSE record
               /\ failRun' =
                     IF res.healthy \/ supState = "Starting" THEN <<>>
                     ELSE Append(failRun, [to |-> step.state,
                                           reason |-> res.reason,
                                           emits |-> SubSeq(em, Len(emitted) + 1, Len(em))])
       ELSE UNCHANGED <<supState, failures, emitted, record, alive, failRun>>
    /\ UNCHANGED <<tauri, nextPid, threshold, spawning, hist>>

-----------------------------------------------------------------------------
(* Part II: properties of the Supervisor *)

Edges ==
    { <<"Stopped", "Starting">>, <<"Starting", "Running">>, <<"Starting", "Failed">>,
      <<"Running", "Degraded">>, <<"Degraded", "Running">>, <<"Degraded", "Failed">>,
      <<"Running", "Stopping">>, <<"Degraded", "Stopping">>, <<"Starting", "Stopping">>,
      <<"Stopping", "Stopped">>, <<"Failed", "Starting">> }

\* C5: the state starts as Stopped and every change of it follows an edge of
\* the state machine's table; no state is skipped.
C5_OnlyTableEdges ==
    /\ supState = "Stopped"
    /\ [][supState' # supState => <<supState, supState'>> \in Edges]_vars

\* C5 witness: Failed was reached from Running through Degraded, one failed
\* probe at a time, up to the threshold.
C5_Witness ==
    /\ supState = "Failed"
    /\ Len(failRun) = threshold
    /\ failRun[1].to = "Degraded"

NoEqualNeighbours(em) ==
    \A i \in 1 .. Len(em) - 1 : em[i].is_healthy # em[i + 1].is_healthy

\* C6: a step that changes the health classification of the state appends
\* exactly one status, carrying the new classification; a step that keeps the
\* classification emits nothing; so no two consecutive emitted statuses have
\* the same is_healthy.
C6_EmitOnClassChange ==
    /\ [][IF HealthyClass(supState') # HealthyClass(supState)
          THEN /\ Len(emitted') = Len(emitted) + 1
               /\ SubSeq(emitted', 1, Len(emitted)) = emitted
               /\ emitted'[Len(emitted')].is_healthy = HealthyClass(supState')
          ELSE emitted' = emitted]_vars
    /\ [] NoEqualNeighbours(emitted)

\* C6 witness: healthy, unhealthy, healthy have been emitted by a start, a
\* failed probe and a recovery, and the state is Running again.
C6_Witness ==
    /\ supState = "Running"
    /\ Len(emitted) = 3
    /\ emitted[2].message = "timeout"
    /\ emitted[3].is_healthy

ThreeFailuresFromRunning ==
    /\ threshold = DefaultFailureThreshold
    /\ Len(failRun) = 3

StopTwiceOnRunning ==
    /\ tauri
    /\ Len(hist) = 2
    /\ hist[1].op = "stop"
    /\ hist[1].before = "Running"
    /\ hist[2].op = "stop"

EmittedSince(n) == SubSeq(emitted, n + 1, Len(emitted))

LastCall(h) == h[Len(h)]

\* (A step that adds a call to hist while no start() holds the lock is the
\* call itself.)
\* C10: start() in Starting, Running, Degraded or Stopping is rejected with
\* AlreadyRunningError and changes nothing (state, ProcessRecord, processes,
\* emitted statuses, failure count, probe); a start() that succeeded found the
\* state Stopped or Failed.
C10_StartRefused ==
    /\ [][(/\ tauri
           /\ ~spawning
           /\ Len(hist') >= 1
           /\ hist' # hist
           /\ LastCall(hist').op = "start"
           /\ supState \in {"Starting", "Running", "Degraded", "Stopping"})
          => /\ LastCall(hist').result =
                   Rejected("Failed to start Typesense server: AlreadyRunningError")
             /\ UNCHANGED <<supState, record, alive, nextPid, emitted, failures,
                            probePid, spawning>>]_vars
    /\ [](\A i \in 1 .. Len(hist) :
             (tauri /\ hist[i].op = "start" /\ hist[i].result = Resolved)
                => hist[i].before \in {"Stopped", "Failed"})

\* C10 witness: a start() while Stopping was rejected and changed nothing.
C10_Witness ==
    /\ Len(hist) >= 1
    /\ LastCall(hist).op = "start"
    /\ LastCall(hist).before = "Stopping"
    /\ ~LastCall(hist).result.ok
    /\ ~LastCall(hist).changed
    /\ supState = "Stopping"

\* ---- C11 ----

ProbeReasons == {"unreachable", "bad-response", "timeout"}

\* C11: probe failures reach Failed only after M consecutive ones.  In
\* Running the failure count is 0; in Degraded it is the number of failed
\* probes since the state was last Running, at least 1 and below M; a
\* successful probe applied in Degraded gives Running with the count back at
\* 0; and a Failed reached by the probes of a server that had run follows
\* exactly M failed probes in a row.
C11_FailedAfterThreshold ==
    /\ [](supState = "Running" => failures = 0)
    /\ [](supState = "Degraded" =>
             /\ failures = Len(failRun)
             /\ 1 <= failures
             /\ failures < threshold)
    /\ []((supState = "Failed" /\ failRun # <<>>) =>
             /\ Len(failRun) = threshold
             /\ failures = threshold)
    /\ [][(supState = "Degraded" /\ lastProbe' = "applied" /\ probePid # 0
              /\ probePid' = 0 /\ failRun' = <<>>)
          => (supState' = "Running" /\ failures' = 0)]_vars

\* C11 witness: Degraded was left for Running by a successful probe (the
\* last two emissions are a probe failure and "healthy"), count back at 0.
C11_Witness ==
    /\ supState = "Running"
    /\ failures = 0
    /\ lastProbe = "applied"
    /\ Len(emitted) >= 3
    /\ emitted[Len(emitted)] = [is_healthy |-> TRUE, message |-> "healthy"]
    /\ emitted[Len(emitted) - 1].message \in ProbeReasons

\* ---- C12 ----

\* C12: once stop() has put the state in Stopping the Supervisor reaches
\* Stopped, whether or not the process honours the graceful stop (the
\* force-kill is the fallback); and Stopped is entered only with the process
\* of the ProcessRecord gone, after which no process is alive.
C12_StopTerminates ==
    /\ (supState = "Stopping") ~> (supState = "Stopped")
    /\ [][(supState # "Stopped" /\ supState' = "Stopped")
          => (supState = "Stopping" /\ record \notin alive /\ alive' = {}
              /\ record' = 0)]_vars

\* C12 witness: Stopped after an accepted stop(), with nothing left alive.
C12_Witness ==
    /\ supState = "Stopped"
    /\ alive = {}
    /\ Len(hist) >= 1
    /\ LastCall(hist).op = "stop"
    /\ LastCall(hist).changed

\* ---- C13 ----

SpawnErrors == SpawnOutcomes \ {"ok"}

\* C13: when spawn returns inside start() without a ProcessRecord the state
\* is Failed; a start() rejected with a SpawnError leaves the state Failed
\* for as long as it is the last call; and whatever step leaves Failed is a
\* new start(), which enters Starting.
C13_FailedUntilStart ==
    /\ [][(spawning /\ ~spawning' /\ record' = 0) => supState' = "Failed"]_vars
    /\ []((/\ tauri
           /\ Len(hist) >= 1
           /\ LastCall(hist).op = "start"
           /\ \E e \in SpawnErrors :
                 LastCall(hist).result = startTypesenseServer(TRUE, e))
          => (supState = "Failed" /\ record = 0 /\ alive = {}))
    /\ [][(supState = "Failed" /\ supState' # "Failed")
          => /\ supState' = "Starting"
             /\ hist' # hist
             /\ LastCall(hist').op = "start"]_vars

\* C13 witness: Failed by a spawn failure, and a probe left over from an
\* earlier process has since come back.
C13_Witness ==
    /\ supState = "Failed"
    /\ Len(hist) >= 1
    /\ LastCall(hist).op = "start"
    /\ LastCall(hist).result = startTypesenseServer(TRUE, "PortInUse")
    /\ lastProbe = "discarded"
    /\ probePid = 0

\* ---- C14 ----

\* C14: with a probe in flight the lock is free.  current_status() is
\* defined and agrees with the state's health classification, and a stop()
\* of a started server can be taken at once: it enters Stopping and leaves
\* the probe in flight.
C14_ProbeOffTheLock ==
    (probePid # 0 /\ ~spawning) =>
        /\ CurrentStatus(emitted).is_healthy = HealthyClass(supState)
        /\ (tauri /\ supState \in ProbingStates /\ Len(emitted) < MaxEmitted) =>
              ENABLED (StopServer /\ supState' = "Stopping" /\ probePid' = probePid)

\* C14 witness: stop() was accepted and the process confirmed terminated
\* while the probe has still not come back.
C14_Witness ==
    /\ probePid # 0
    /\ supState = "Stopped"
    /\ Len(hist) >= 1
    /\ LastCall(hist).op = "stop"
    /\ LastCall(hist).changed
    /\ LastCall(hist).result = Resolved

\* ---- C15 ----

\* C15: after stop() the state goes Stopping -> Stopped only, and leaves
\* Stopped only by a start(); while an accepted stop() is the last call no
\* healthy status has been emitted since it; and a probe result that comes
\* back for a process that is no longer the current one, or in a state that
\* is not probed, changes nothing.
C15_StopSerializes ==
    /\ [][(supState = "Stopping" => supState' \in {"Stopping", "Stopped"})
          /\ (supState = "Stopped" => supState' \in {"Stopped", "Starting"})]_vars
    /\ []((Len(hist) >= 1 /\ LastCall(hist).op = "stop" /\ LastCall(hist).changed)
          => /\ supState \in {"Stopping", "Stopped"}
             /\ \A i \in 1 .. Len(EmittedSince(LastCall(hist).emLen)) :
                   ~EmittedSince(LastCall(hist).emLen)[i].is_healthy)
    /\ [][(probePid # 0 /\ probePid' = 0
              /\ (probePid # record \/ supState \notin ProbingStates))
          => UNCHANGED <<supState, record, alive, failures, emitted>>]_vars

\* C15 witness: the probe that was in flight when stop() was called came
\* back in Stopping and was dropped.
C15_Witness ==
    /\ supState = "Stopping"
    /\ lastProbe = "discarded"
    /\ probePid = 0
    /\ record # 0
    /\ Len(hist) >= 1
    /\ LastCall(hist).op = "stop"
    /\ LastCall(hist).changed

-----------------------------------------------------------------------------
(* Part III: the status subscriptions *)

\* The subscribers there may be: the useTypesense hook and a plain caller of
\* onTypesenseStatusUpdate (src/lib), and App, which calls listen itself.
AllSubs == {"useTypesense", "App", "caller"}

\* the subscribers of this run
Subs == {"useTypesense", second}

\* ServerStatus payloads of the "typesense-server-status" event
Payloads ==
    {s \in ServerStatus : s.is_healthy <=> (s.message = "Typesense server is healthy")}

NotSubscribed ==
    [life |-> "initial", reg |-> "none", unlisten |-> FALSE, since |-> -1,
     disposedAt |-> -1, calls |-> 0, dropped |-> 0, received |-> <<>>]

\* ---- the event bus (StatusBroadcaster) ----

CanPublishWhenDrained(qs) == \A l \in AllSubs : qs[l] = <<>>

\* publish waits for no subscriber: the queues are unbounded
CanPublish(qs) == TRUE

\* publish: the event joins the queue of every registered listener
Enqueue(qs, ls, ev) == [l \in AllSubs |-> IF l \in ls THEN Append(qs[l], ev) ELSE qs[l]]

\* listen: register listener l
Listen(ls, l) == ls \cup {l}

\* the unlisten function listen resolved with, for listener l
Unlisten(ls, l) == ls \ {l}

\* events still queued for a listener that is no longer registered find no
\* handler
DropUnregistered(qs, ls) == [l \in AllSubs |-> IF l \in ls THEN qs[l] ELSE <<>>]

\* ---- src/lib/typesense.ts ----

\* onTypesenseStatusUpdate up to its await: outside Tauri it has resolved
\* with a no-op, otherwise listen is pending
onTypesenseStatusUpdate(inTauri) == IF ~inTauri THEN "noop" ELSE "pending"

OnStatusEventDrops(event) == <<>>

\* the handler given to listen: the calls it makes to callback for one event
OnStatusEvent(event) == <<event.payload>>

DisposeFnForgets(noop, ls, l) == ls

DisposeFnDisposesAll(noop, ls, l) == {}

\* the unsubscribe function onTypesenseStatusUpdate resolves with, called:
\* the listeners afterwards
DisposeFn(noop, ls, l) == IF noop THEN ls ELSE Unlisten(ls, l)

\* ---- src/App.tsx ----

\* the handler App gives to listen: its calls of setServerStatus for one event
AppOnStatusEvent(event) == <<event.payload>>

\* ---- bookkeeping ----

\* subscriber record after its dispose function was called, ls being the
\* listeners before the call
Disposed(s, l, ls) ==
    [s EXCEPT !.calls = @ + 1,
              !.disposedAt = IF @ = -1 /\ l \in ls THEN Len(published) ELSE @,
              !.dropped = @ + Len(queues[l])]

\* the callback invocations, tagged with the position of the event in the
\* published stream
Invoked(ev, payloads) ==
    [i \in 1 .. Len(payloads) |-> [seq |-> ev.seq, status |-> payloads[i]]]

SubStart ==
    /\ published = <<>>
    /\ listeners = {}
    /\ queues = [l \in AllSubs |-> <<>>]
    /\ subs = [l \in AllSubs |-> NotSubscribed]

\* nothing subscribed (the start of Parts I and II)
SubIdle ==
    /\ second = "App"
    /\ SubStart

\* ---- useTypesense: the subscription effect ----

\* mount: isMounted = true, unlisten = null, register() runs up to its await
HookMount ==
    /\ subs["useTypesense"].life = "initial"
    /\ subs' = [subs EXCEPT !["useTypesense"] =
                   [@ EXCEPT !.life = "mounted",
                             !.reg = IF ~tauri THEN "skipped"
                                     ELSE onTypesenseStatusUpdate(tauri)]]
    /\ UNCHANGED <<second, published, listeners, queues>>

\* listen resolves, onTypesenseStatusUpdate returns the dispose function and
\* register() continues: unlisten = dispose
HookRegistered ==
    /\ subs["useTypesense"].reg = "pending"
    /\ listeners' = Listen(listeners, "useTypesense")
    /\ subs' = [subs EXCEPT !["useTypesense"] =
                   [@ EXCEPT !.reg = "done", !.unlisten = TRUE,
                             !.since = Len(published)]]
    /\ UNCHANGED <<second, published, queues>>

\* unmount, the effect's cleanup: isMounted = false; if (unlisten) unlisten()
HookUnmount ==
    /\ subs["useTypesense"].life = "mounted"
    /\ IF subs["useTypesense"].unlisten
       THEN LET ls == DisposeFn(FALSE, listeners, "useTypesense")
            IN /\ listeners' = ls
               /\ queues' = DropUnregistered(queues, ls)
               /\ subs' = [subs EXCEPT !["useTypesense"] =
                              [Disposed(@, "useTypesense", listeners)
                                  EXCEPT !.life = "unmounted"]]
       ELSE /\ subs' = [subs EXCEPT !["useTypesense"].life = "unmounted"]
            /\ UNCHANGED <<listeners, queues>>
    /\ UNCHANGED <<second, published>>

\* ---- App: its effect ----

\* mount: unlisten = listen(...), a promise
AppMount ==
    /\ second = "App"
    /\ subs["App"].life = "initial"
    /\ subs' = [subs EXCEPT !["App"] = [@ EXCEPT !.life = "mounted", !.reg = "pending"]]
    /\ UNCHANGED <<second, published, listeners, queues>>

\* the promise resolves; a cleanup that ran before has left unlisten.then(f => f())
AppRegistered ==
    /\ subs["App"].reg = "pending"
    /\ IF subs["App"].life = "unmounted"
       THEN /\ listeners' = Unlisten(Listen(listeners, "App"), "App")
            /\ subs' = [subs EXCEPT !["App"] =
                           [Disposed(@, "App", Listen(listeners, "App"))
                               EXCEPT !.reg = "done", !.unlisten = TRUE,
                                      !.since = Len(published)]]
       ELSE /\ listeners' = Listen(listeners, "App")
            /\ subs' = [subs EXCEPT !["App"] =
                           [@ EXCEPT !.reg = "done", !.unlisten = TRUE,
                                     !.since = Len(published)]]
    /\ UNCHANGED <<second, published, queues>>

\* unmount, the effect's cleanup: unlisten.then((f) => f())
AppUnmount ==
    /\ subs["App"].life = "mounted"
    /\ IF subs["App"].reg = "done"
       THEN LET ls == Unlisten(listeners, "App")
            IN /\ listeners' = ls
               /\ queues' = DropUnregistered(queues, ls)
               /\ subs' = [subs EXCEPT !["App"] =
                              [Disposed(@, "App", listeners) EXCEPT !.life = "unmounted"]]
       ELSE /\ subs' = [subs EXCEPT !["App"].life = "unmounted"]
            /\ UNCHANGED <<listeners, queues>>
    /\ UNCHANGED <<second, published>>

\* ---- a caller of onTypesenseStatusUpdate ----

\* const dispose = await onTypesenseStatusUpdate(callback), up to the await
CallerSubscribe ==
    /\ second = "caller"
    /\ subs["caller"].life = "initial"
    /\ subs' = [subs EXCEPT !["caller"] =
                   [@ EXCEPT !.life = "mounted",
                             !.reg = onTypesenseStatusUpdate(tauri),
                             !.unlisten = ~tauri]]
    /\ UNCHANGED <<second, published, listeners, queues>>

\* listen resolves and the caller holds the dispose function
CallerSubscribed ==
    /\ subs["caller"].reg = "pending"
    /\ listeners' = Listen(listeners, "caller")
    /\ subs' = [subs EXCEPT !["caller"] =
                   [@ EXCEPT !.reg = "done", !.unlisten = TRUE,
                             !.since = Len(published)]]
    /\ UNCHANGED <<second, published, queues>>

\* dispose(), any number of times
CallerDispose ==
    /\ subs["caller"].unlisten
    /\ subs["caller"].calls < MaxDisposeCalls
    /\ LET ls == DisposeFn(subs["caller"].reg = "noop", listeners, "caller")
       IN /\ listeners' = ls
          /\ queues' = DropUnregistered(queues, ls)
          /\ subs' = [subs EXCEPT !["caller"] =
                         [Disposed(@, "caller", listeners) EXCEPT !.life = "unmounted"]]
    /\ UNCHANGED <<second, published>>

\* ---- the events ----

\* the backend emits "typesense-server-status" with a ServerStatus
Publish(status) ==
    /\ tauri
    /\ Len(published) < MaxPublished
    /\ CanPublish(queues)
    /\ published' = Append(published, status)
    /\ queues' = Enqueue(queues, listeners,
                         [seq |-> Len(published) + 1, payload |-> status])
    /\ UNCHANGED <<second, listeners, subs>>

\* the next event queued for listener l reaches its handler
Deliver(l) ==
    /\ queues[l] # <<>>
    /\ queues' = [queues EXCEPT ![l] = Tail(@)]
    /\ subs' = [subs EXCEPT ![l].received =
                   IF l \notin listeners THEN @
                   ELSE @ \o Invoked(Head(queues[l]),
                                     IF l = "App" THEN AppOnStatusEvent(Head(queues[l]))
                                     ELSE OnStatusEvent(Head(queues[l])))]
    /\ UNCHANGED <<second, published, listeners>>

-----------------------------------------------------------------------------
(* Part IV: the useTypesense hook *)

\* string | null
Null == [present |-> FALSE, message |-> ""]
Msg(m) == [present |-> TRUE, message |-> m]

\* the operations of the hook that call the backend
HookOps == {"check", "start", "stop", "refresh"}

NoCall == [active |-> FALSE, commands |-> <<>>, errSet |-> FALSE]

\* the state of useTypesense at its first render
UseTypesenseInit ==
    [isRunning |-> FALSE, isLoading |-> FALSE, error |-> Null, serverStatus |-> NoStatus]

\* ---- src/lib/typesense.ts ----

InvokesAlways(inTauri, command) == <<command>>

\* the backend commands a client function issues: none outside Tauri, else
\* its one invoke
InvokesOf(inTauri, command) == IF ~inTauri THEN <<>> ELSE <<command>>

IsRunningRethrows(inTauri, backend) ==
    IF ~inTauri THEN [ok |-> TRUE, value |-> FALSE, message |-> ""]
    ELSE IF backend = "error" THEN [ok |-> FALSE, value |-> FALSE, message |-> backend]
    ELSE [ok |-> TRUE, value |-> (backend = "true"), message |-> ""]

\* isTypesenseServerRunning, given what invoke("is_typesense_server_running")
\* does: its answer, or a failure
isTypesenseServerRunning(inTauri, backend) ==
    IF ~inTauri THEN [ok |-> TRUE, value |-> FALSE, message |-> ""]
    ELSE IF backend = "error" THEN [ok |-> TRUE, value |-> FALSE, message |-> ""]
    ELSE [ok |-> TRUE, value |-> (backend = "true"), message |-> ""]

\* ---- src/lib/useTypesense.ts ----

OnStatusKeepsError(h, isMounted, status) ==
    IF ~isMounted THEN h
    ELSE [h EXCEPT !.serverStatus = status,
                   !.isRunning = status.is_healthy,
                   !.error = IF ~status.is_healthy THEN Msg(status.message) ELSE @]

OnStatusAfterUnmount(h, isMounted, status) ==
    [h EXCEPT !.serverStatus = status,
              !.isRunning = status.is_healthy,
              !.error = IF ~status.is_healthy THEN Msg(status.message) ELSE Null]

\* the status callback
OnStatus(h, isMounted, status) ==
    IF ~isMounted THEN h
    ELSE [h EXCEPT !.serverStatus = status,
                   !.isRunning = status.is_healthy,
                   !.error = IF ~status.is_healthy THEN Msg(status.message) ELSE Null]

\* startServer and stopServer up to their await
CallBegin(h) == [h EXCEPT !.isLoading = TRUE, !.error = Null]

StartDoneForgetsRunning(h, result) ==
    IF result.ok THEN [h EXCEPT !.isLoading = FALSE]
    ELSE [h EXCEPT !.error = Msg(result.message), !.isLoading = FALSE]

\* startServer after its await: try, catch, finally
StartDone(h, result) ==
    IF result.ok THEN [h EXCEPT !.isRunning = TRUE, !.isLoading = FALSE]
    ELSE [h EXCEPT !.error = Msg(result.message), !.isLoading = FALSE]

StopDoneKeepsStatus(h, result) ==
    IF result.ok THEN [h EXCEPT !.isRunning = FALSE, !.isLoading = FALSE]
    ELSE [h EXCEPT !.error = Msg(result.message), !.isLoading = FALSE]

StopDoneClearsOnFailure(h, result) ==
    [h EXCEPT !.isRunning = FALSE, !.serverStatus = NoStatus, !.isLoading = FALSE,
              !.error = IF result.ok THEN @ ELSE Msg(result.message)]

\* stopServer after its await: try, catch, finally
StopDone(h, result) ==
    IF result.ok
    THEN [h EXCEPT !.isRunning = FALSE, !.serverStatus = NoStatus, !.isLoading = FALSE]
    ELSE [h EXCEPT !.error = Msg(result.message), !.isLoading = FALSE]

\* the promise startServer/stopServer returns: the catch takes every failure
HookPromise(result) == Resolved

\* checkInitialStatus after its await
CheckDone(h, res) ==
    IF res.ok THEN [h EXCEPT !.isRunning = res.value]
    ELSE [h EXCEPT !.error = Msg("Failed to check initial server status: " \o res.message)]

\* refreshStatus after its await
RefreshDone(h, res) ==
    IF res.ok THEN [h EXCEPT !.isRunning = res.value]
    ELSE [h EXCEPT !.error = Msg("Failed to refresh server status: " \o res.message)]

\* ---- the backend, as far as the hook can tell ----

\* answers of start_typesense_server: accepted and spawned, a SpawnError, or
\* AlreadyRunningError
StartAnswers(up) == IF up THEN {"AlreadyRunningError"} ELSE {"ok", "PortInUse"}

\* answers of stop_typesense_server
StopAnswers(up) == IF up THEN {"ok"} ELSE {"NotRunningError"}

\* answers of is_typesense_server_running; "error" is a failed call
RunningAnswers(up) == {IF up THEN "true" ELSE "false", "error"}

\* ---- bookkeeping ----

NoLast ==
    [op |-> "none", backend |-> "", result |-> Resolved,
     running |-> [ok |-> TRUE, value |-> FALSE, message |-> ""],
     status |-> NoStatus, promise |-> Resolved, commands |-> <<>>,
     cleared |-> FALSE, tick |-> FALSE]

\* the last thing that completed
Last(op, backend, result, running, status, commands, cleared) ==
    [op |-> op, backend |-> backend, result |-> result, running |-> running,
     status |-> status, promise |-> HookPromise(result), commands |-> commands,
     cleared |-> cleared, tick |-> ~last.tick]

\* calls in flight when the error just set is not null note it
NoteError(cs, h) ==
    [o \in HookOps |-> IF cs[o].active /\ h.error # Null
                       THEN [cs[o] EXCEPT !.errSet = TRUE] ELSE cs[o]]

isMounted == subs["useTypesense"].life = "mounted"

HookStart ==
    /\ hook = UseTypesenseInit
    /\ calls = [o \in HookOps |-> NoCall]
    /\ backendUp = FALSE
    /\ last = NoLast

\* ---- operations ----

\* mount: both effects run; the initial check is made in Tauri only
HkMount ==
    /\ HookMount
    /\ calls' = IF tauri
                THEN [calls EXCEPT !["check"] =
                         [active |-> TRUE,
                          commands |-> InvokesOf(tauri, "is_typesense_server_running"),
                          errSet |-> FALSE]]
                ELSE calls
    /\ UNCHANGED <<hook, backendUp, last>>

HkRegistered == HookRegistered /\ UNCHANGED hookVars

HkUnmount == HookUnmount /\ UNCHANGED hookVars

\* a "typesense-server-status" event reaches the hook's listener
StatusEvent(status) ==
    /\ tauri
    /\ "useTypesense" \in listeners
    /\ hook' = OnStatus(hook, isMounted, status)
    /\ calls' = NoteError(calls, IF isMounted /\ ~status.is_healthy THEN hook' ELSE UseTypesenseInit)
    /\ last' = Last("event", "", Resolved, NoLast.running, status, <<>>, FALSE)
    /\ UNCHANGED <<backendUp, subVars>>

\* the initial check's await returns
CheckEnd(answer) ==
    /\ calls["check"].active
    /\ answer \in RunningAnswers(backendUp)
    /\ LET res == isTypesenseServerRunning(tauri, answer)
       IN /\ hook' = CheckDone(hook, res)
          /\ calls' = [NoteError(calls, IF res.ok THEN UseTypesenseInit ELSE hook')
                          EXCEPT !["check"] = NoCall]
          /\ last' = Last("check", answer, Resolved, res, NoStatus,
                          calls["check"].commands, FALSE)
    /\ UNCHANGED <<backendUp, subVars>>

\* startServer() is called
StartBegin ==
    /\ isMounted
    /\ ~calls["start"].active
    /\ hook' = CallBegin(hook)
    /\ calls' = [calls EXCEPT !["start"] =
                    [active |-> TRUE,
                     commands |-> InvokesOf(tauri, "start_typesense_server"),
                     errSet |-> FALSE]]
    /\ UNCHANGED <<backendUp, last, subVars>>

\* startServer's await returns
StartEnd(answer) ==
    /\ calls["start"].active
    /\ answer \in (IF tauri THEN StartAnswers(backendUp) ELSE {"ok"})
    /\ LET res == startTypesenseServer(tauri, answer)
       IN /\ hook' = StartDone(hook, res)
          /\ calls' = [NoteError(calls, IF res.ok THEN UseTypesenseInit ELSE hook')
                          EXCEPT !["start"] = NoCall]
          /\ last' = Last("start", answer, res, NoLast.running, NoStatus,
                          calls["start"].commands, FALSE)
    /\ backendUp' = IF tauri /\ answer = "ok" THEN TRUE ELSE backendUp
    /\ UNCHANGED subVars

\* stopServer() is called
StopBegin ==
    /\ isMounted
    /\ ~calls["stop"].active
    /\ hook' = CallBegin(hook)
    /\ calls' = [calls EXCEPT !["stop"] =
                    [active |-> TRUE,
                     commands |-> InvokesOf(tauri, "stop_typesense_server"),
                     errSet |-> FALSE]]
    /\ UNCHANGED <<backendUp, last, subVars>>

\* stopServer's await returns
StopEnd(answer) ==
    /\ calls["stop"].active
    /\ answer \in (IF tauri THEN StopAnswers(backendUp) ELSE {"ok"})
    /\ LET res == stopTypesenseServer(tauri, answer)
       IN /\ hook' = StopDone(hook, res)
          /\ calls' = [NoteError(calls, IF res.ok THEN UseTypesenseInit ELSE hook')
                          EXCEPT !["stop"] = NoCall]
          /\ last' = Last("stop", answer, res, NoLast.running, NoStatus,
                          calls["stop"].commands,
                          hook.isRunning \/ hook.serverStatus # NoStatus)
    /\ backendUp' = IF tauri /\ answer = "ok" THEN FALSE ELSE backendUp
    /\ UNCHANGED subVars

\* refreshStatus() is called
RefreshBegin ==
    /\ isMounted
    /\ ~calls["refresh"].active
    /\ calls' = [calls EXCEPT !["refresh"] =
                    [active |-> TRUE,
                     commands |-> InvokesOf(tauri, "is_typesense_server_running"),
                     errSet |-> FALSE]]
    /\ UNCHANGED <<hook, backendUp, last, subVars>>

\* refreshStatus's await returns
RefreshEnd(answer) ==
    /\ calls["refresh"].active
    /\ answer \in (IF tauri THEN RunningAnswers(backendUp) ELSE {"false"})
    /\ LET res == isTypesenseServerRunning(tauri, answer)
       IN /\ hook' = RefreshDone(hook, res)
          /\ calls' = [NoteError(calls, IF res.ok THEN UseTypesenseInit ELSE hook')
                          EXCEPT !["refresh"] = NoCall]
          /\ last' = Last("refresh", answer, Resolved, res, NoStatus,
                          calls["refresh"].commands, FALSE)
    /\ UNCHANGED <<backendUp, subVars>>

-----------------------------------------------------------------------------
(* Part V: autosave in NotesWorkspace *)

\* Text is a sequence of characters; string | null is a record.
NullText == [null |-> TRUE, text |-> <<>>]
Text(s) == [null |-> FALSE, text |-> s]

\* x ?? ""
OrEmpty(x) == IF x.null THEN <<>> ELSE x.text

RECURSIVE TrimStart(_)
TrimStart(s) == IF s # <<>> /\ Head(s) = " " THEN TrimStart(Tail(s)) ELSE s

RECURSIVE TrimEnd(_)
TrimEnd(s) ==
    IF s # <<>> /\ s[Len(s)] = " " THEN TrimEnd(SubSeq(s, 1, Len(s) - 1)) ELSE s

\* String.prototype.trim
Trim(s) == TrimEnd(TrimStart(s))

\* "Untitled note"
UntitledNote == <<"U", "n", "t", "i", "t", "l", "e", "d", " ", "n", "o", "t", "e">>

\* what the user may type into the title and into the content
Titles == {<<"A">>, <<" ", "B", " ">>, <<" ">>, <<>>}
Contents == {<<"x">>, <<"y", " ">>}

NoItem ==
    [present |-> FALSE, id |-> 0, title |-> <<>>, content |-> NullText,
     item_type |-> "", tags |-> NullText, rev |-> 0]

Note(id, title, content, tags, rev) ==
    [present |-> TRUE, id |-> id, title |-> title, content |-> content,
     item_type |-> "note", tags |-> tags, rev |-> rev]

\* what getAllItems may have loaded: items in normal form (ListStores has
\* the others)
Stores ==
    {<<Note(1, <<"A">>, Text(<<"x">>), NullText, 1)>>,
     <<Note(1, <<"A">>, NullText, Text(<<"t">>), 1),
       Note(2, <<"B">>, Text(<<"y", " ">>), NullText, 2)>>}

NoDraft == [present |-> FALSE, id |-> 0, title |-> <<>>, content |-> <<>>, tags |-> <<>>]

\* toDraft
toDraft(item) ==
    [present |-> TRUE, id |-> item.id, title |-> item.title,
     content |-> OrEmpty(item.content), tags |-> OrEmpty(item.tags)]

\* selectedNote: notes.find((note) => note.id === selectedId) ?? null
SelectedNote(ns, id) ==
    IF \E i \in 1 .. Len(ns) : ns[i].id = id
    THEN ns[CHOOSE i \in 1 .. Len(ns) :
                ns[i].id = id /\ \A j \in 1 .. (i - 1) : ns[j].id # id]
    ELSE NoItem

\* draft.title.trim() || "Untitled note"
TrimmedTitle(d) == IF Trim(d.title) = <<>> THEN UntitledNote ELSE Trim(d.title)

\* the request the autosave timer sends
Request(d) ==
    [id |-> d.id, title |-> TrimmedTitle(d), content |-> d.content,
     item_type |-> "note",
     tags |-> IF Trim(d.tags) = <<>> THEN NullText ELSE Text(Trim(d.tags))]

\* the draft holds what the selected note holds
Unchanged(d, sel) ==
    /\ sel.title = TrimmedTitle(d)
    /\ OrEmpty(sel.content) = d.content
    /\ OrEmpty(sel.tags) = Trim(d.tags)

\* the component before its items are loaded
WorkspaceInit ==
    [draft |-> NoDraft, saveState |-> "idle", timers |-> {}, timeout |-> 0,
     error |-> Null, loading |-> TRUE]

\* window.setTimeout returns a handle no live timer has
FreshId(w) ==
    CHOOSE n \in 1 .. (Cardinality(w.timers) + 1) : \A tmr \in w.timers : tmr.id # n

AutosaveCleanupKeepsTimer(w) == [w EXCEPT !.timeout = 0]

\* the cleanup of the autosave effect: window.clearTimeout(timeout)
AutosaveCleanup(w) ==
    [w EXCEPT !.timers = IF w.timeout # 0 THEN ClearTimeout(@, w.timeout) ELSE @,
              !.timeout = 0]

\* the autosave effect, run at time t with the rendered draft and selectedNote
AutosaveBody(w, sel, t) ==
    IF ~w.draft.present \/ ~sel.present THEN w
    ELSE IF Unchanged(w.draft, sel)
    THEN [w EXCEPT !.saveState = IF @ = "saving" THEN "saved" ELSE @]
    ELSE [w EXCEPT !.saveState = "saving",
                   !.error = Null,
                   !.timers = @ \cup {[id |-> FreshId(w), due |-> t + AUTOSAVE_DELAY_MS,
                                       req |-> Request(w.draft)]},
                   !.timeout = FreshId(w)]

\* React after a handler changed draft and/or selectedNote: the draft-sync
\* effect (deps [selectedNote]) and the autosave effect (deps [draft,
\* selectedNote]) run with the values of this render, the state they set
\* applies afterwards, and the new draft renders again and runs the autosave
\* effect once more.
Commit(w, sel, selChanged, draftChanged, t) ==
    IF ~selChanged /\ ~draftChanged THEN w
    ELSE LET synced == IF ~selChanged THEN AutosaveCleanup(w)
                       ELSE [AutosaveCleanup(w) EXCEPT
                                !.saveState = IF sel.present THEN "saved" ELSE "idle"]
             first  == AutosaveBody(synced, sel, t)
         IN IF selChanged /\ (sel.present \/ first.draft.present)
            THEN AutosaveBody(
                     AutosaveCleanup(
                         [first EXCEPT !.draft = IF sel.present THEN toDraft(sel)
                                                 ELSE NoDraft]),
                     sel, t)
            ELSE first

\* update_item's answer to a request: the stored item, a new object
Updated(req, rev) ==
    [present |-> TRUE, id |-> req.id, title |-> req.title, content |-> Text(req.content),
     item_type |-> req.item_type, tags |-> req.tags, rev |-> rev]

\* prev.map((note) => (note.id === updated.id ? updated : note))
ReplaceNote(ns, updated) ==
    [i \in 1 .. Len(ns) |-> IF ns[i].id = updated.id THEN updated ELSE ns[i]]

NoEdit ==
    [at |-> -1, req |-> Request(NoDraft), dirty |-> FALSE, cancelled |-> FALSE,
     called |-> 0]

\* no createItem, createBookmark or deleteItem call under way, none made
NoListCalls == [pending |-> {}, begun |-> 0]

NoUpdate ==
    [n |-> 0, at |-> -1, req |-> Request(NoDraft), draft |-> NoDraft, rejected |-> FALSE]

\* the items are loaded and the first one is selected
NoteStart ==
    /\ clock = 0
    /\ notes \in Stores
    /\ selectedId = notes[1].id
    /\ ws = Commit([WorkspaceInit EXCEPT !.loading = FALSE],
                    SelectedNote(notes, notes[1].id), TRUE, FALSE, 0)
    /\ inflight = {}
    /\ nextRev = 3
    /\ edits = 0
    /\ lastEdit = NoEdit
    /\ lastCall = NoUpdate
    /\ listCalls = NoListCalls

\* nothing loaded (the start of the other parts)
NoteIdle ==
    /\ clock = 0
    /\ notes = <<>>
    /\ selectedId = 0
    /\ ws = WorkspaceInit
    /\ inflight = {}
    /\ nextRev = 3
    /\ edits = 0
    /\ lastEdit = NoEdit
    /\ lastCall = NoUpdate
    /\ listCalls = NoListCalls

\* the editor is on screen
EditorShown ==
    /\ SelectedNote(notes, selectedId).present
    /\ SelectedNote(notes, selectedId).item_type # "bookmark"
    /\ ws.draft.present

\* the user has typed: the component renders with the new draft
Edited(d) ==
    /\ edits < MaxEdits
    /\ edits' = edits + 1
    /\ ws' = Commit([ws EXCEPT !.draft = d], SelectedNote(notes, selectedId),
                    FALSE, TRUE, clock)
    /\ lastEdit' = [at |-> clock, req |-> Request(d),
                    dirty |-> /\ ~Unchanged(d, SelectedNote(notes, selectedId))
                              /\ \A c \in inflight : c.req # Request(d),
                    cancelled |-> ws.timers # {},
                    called |-> 0]
    /\ UNCHANGED <<clock, notes, selectedId, inflight, nextRev, lastCall, listCalls>>

\* onChange of the title input
EditTitle(v) ==
    /\ EditorShown
    /\ v # ws.draft.title
    /\ Edited([ws.draft EXCEPT !.title = v])

\* onChange of the content textarea
EditContent(v) ==
    /\ EditorShown
    /\ v # ws.draft.content
    /\ Edited([ws.draft EXCEPT !.content = v])

\* a click on an item of the list: setSelectedId(item.id)
Select(id) ==
    /\ \E i \in 1 .. Len(notes) : notes[i].id = id
    /\ id # selectedId
    /\ selectedId' = id
    /\ ws' = Commit(ws, SelectedNote(notes, id), TRUE, FALSE, clock)
    /\ lastEdit' = NoEdit
    /\ UNCHANGED <<clock, notes, inflight, nextRev, edits, lastCall, listCalls>>

\* the autosave timer fires: updateItem is called
AutosaveFire ==
    \E tmr \in ws.timers :
        /\ tmr.due <= clock
        /\ ws' = [ws EXCEPT !.timers = ClearTimeout(@, tmr.id)]
        /\ inflight' = inflight \cup {[n |-> lastCall.n + 1, req |-> tmr.req]}
        /\ lastCall' = [n |-> lastCall.n + 1, at |-> clock, req |-> tmr.req,
                        draft |-> ws.draft, rejected |-> lastCall.rejected]
        /\ lastEdit' = [lastEdit EXCEPT !.called = @ + 1]
        /\ UNCHANGED <<clock, notes, selectedId, nextRev, edits, listCalls>>

\* updateItem resolves: the note is replaced in the list, saveState is
\* "saved", the component renders
UpdateResolves ==
    \E c \in inflight :
        LET updated == Updated(c.req, nextRev)
            ns      == ReplaceNote(notes, updated)
        IN /\ inflight' = inflight \ {c}
           /\ notes' = ns
           /\ nextRev' = nextRev + 1
           /\ ws' = Commit([ws EXCEPT !.saveState = "saved"],
                           SelectedNote(ns, selectedId),
                           SelectedNote(ns, selectedId) # SelectedNote(notes, selectedId),
                           FALSE, clock)
           /\ UNCHANGED <<clock, selectedId, edits, lastEdit, lastCall, listCalls>>

\* updateItem rejects
UpdateRejects ==
    \E c \in inflight :
        /\ inflight' = inflight \ {c}
        /\ ws' = [ws EXCEPT !.error = Msg("Failed to save note: error"),
                            !.saveState = "error"]
        /\ lastCall' = [lastCall EXCEPT !.rejected = TRUE]
        /\ UNCHANGED <<clock, notes, selectedId, nextRev, edits, lastEdit, listCalls>>

\* Time passes.  A due timer runs before the clock moves on.
NoteTick ==
    /\ clock + NoteTickMs <= MaxNoteTime
    /\ \A tmr \in ws.timers : tmr.due > clock
    /\ clock' = clock + NoteTickMs
    /\ UNCHANGED <<notes, selectedId, ws, inflight, nextRev, edits, lastEdit, lastCall, listCalls>>

\* ---- the list: load, create, delete ----

Bookmark(id, title, content, tags, rev) ==
    [present |-> TRUE, id |-> id, title |-> title, content |-> content,
     item_type |-> "bookmark", tags |-> tags, rev |-> rev]

\* what getAllItems may answer at mount: nothing stored, items stored in
\* normal form, items whose title or tags are blank or padded
ListStores ==
    {<<>>,
     <<Note(1, <<"A">>, Text(<<"x">>), NullText, 1),
       Bookmark(2, <<"B">>, NullText, NullText, 2)>>,
     <<Note(1, <<" ", "A">>, NullText, Text(<<"t", " ">>), 1),
       Bookmark(2, <<>>, NullText, NullText, 2)>>,
     <<Bookmark(1, <<"B">>, Text(<<"x">>), Text(<<" ", "t">>), 1),
       Note(2, <<>>, Text(<<"x">>), NullText, 2)>>}

\* the title create_bookmark finds for a URL
BookmarkTitles == {<<"B">>, <<>>}

\* create_item's answer to handleCreateNote's request
CreatedNote(id) == Note(id, UntitledNote, Text(<<>>), NullText, id)

\* the ids of the items in the list
Ids(ns) == {ns[i].id : i \in 1 .. Len(ns)}

\* prev.filter((note) => note.id !== id)
RECURSIVE Without(_, _)
Without(ns, id) ==
    IF ns = <<>> THEN <<>>
    ELSE IF Head(ns).id = id THEN Without(Tail(ns), id)
    ELSE <<Head(ns)>> \o Without(Tail(ns), id)

\* next[0]?.id ?? null
FirstId(ns) == IF ns = <<>> THEN 0 ELSE ns[1].id

\* handleDelete's updater: the selectedId it compares is the one of the
\* render in which the delete was clicked
SelectAfterDelete(captured, current, id, next) ==
    IF captured = id THEN FirstId(next) ELSE current

\* loadNotes: getAllItems resolves
LoadResolves(fetched) ==
    /\ ws.loading
    /\ notes' = fetched
    /\ selectedId' = IF fetched # <<>> /\ selectedId = 0 THEN fetched[1].id ELSE selectedId
    /\ ws' = Commit([ws EXCEPT !.error = Null, !.loading = FALSE],
                    SelectedNote(fetched, selectedId'),
                    SelectedNote(fetched, selectedId') # SelectedNote(notes, selectedId),
                    FALSE, clock)
    /\ UNCHANGED <<clock, inflight, nextRev, edits, lastEdit, lastCall, listCalls>>

\* loadNotes: getAllItems rejects
LoadRejects ==
    /\ ws.loading
    /\ ws' = [ws EXCEPT !.error = Msg("Failed to load items: error"), !.loading = FALSE]
    /\ UNCHANGED <<clock, notes, selectedId, inflight, nextRev, edits, lastEdit, lastCall,
                   listCalls>>

\* a create or delete call is made
Begun(call) ==
    /\ ~ws.loading
    /\ listCalls.begun < MaxListCalls
    /\ listCalls' = [pending |-> listCalls.pending \cup {call},
                     begun |-> listCalls.begun + 1]
    /\ UNCHANGED <<clock, notes, selectedId, ws, inflight, nextRev, edits, lastEdit, lastCall>>

\* the call's await has returned
Ended(call) == [listCalls EXCEPT !.pending = @ \ {call}]

\* "New note" is clicked
CreateNoteBegin == Begun([kind |-> "createNote", id |-> 0, sel |-> 0, n |-> listCalls.begun])

\* handleCreateNote after its await
CreateNoteEnd ==
    \E c \in listCalls.pending :
        /\ c.kind = "createNote"
        /\ LET created == CreatedNote(nextRev)
               ns      == <<created>> \o notes
           IN /\ notes' = ns
              /\ selectedId' = created.id
              /\ ws' = Commit([ws EXCEPT !.draft = toDraft(created), !.error = Null,
                                         !.saveState = "saved"],
                              created, TRUE, TRUE, clock)
        /\ nextRev' = nextRev + 1
        /\ listCalls' = Ended(c)
        /\ lastEdit' = NoEdit
        /\ UNCHANGED <<clock, inflight, edits, lastCall>>

\* "Bookmark" is clicked with a URL typed
CreateBookmarkBegin ==
    Begun([kind |-> "createBookmark", id |-> 0, sel |-> 0, n |-> listCalls.begun])

\* handleCreateBookmark after its await
CreateBookmarkEnd(title) ==
    \E c \in listCalls.pending :
        /\ c.kind = "createBookmark"
        /\ LET created == Bookmark(nextRev, title, NullText, NullText, nextRev)
               ns      == <<created>> \o notes
           IN /\ notes' = ns
              /\ selectedId' = created.id
              /\ ws' = Commit([ws EXCEPT !.error = Null], created, TRUE, FALSE, clock)
        /\ nextRev' = nextRev + 1
        /\ listCalls' = Ended(c)
        /\ lastEdit' = NoEdit
        /\ UNCHANGED <<clock, inflight, edits, lastCall>>

\* createItem or createBookmark rejects
CreateRejects ==
    \E c \in listCalls.pending :
        /\ c.kind \in {"createNote", "createBookmark"}
        /\ ws' = [ws EXCEPT !.error = IF c.kind = "createNote"
                                      THEN Msg("Failed to create note: error")
                                      ELSE Msg("Failed to create bookmark: error")]
        /\ listCalls' = Ended(c)
        /\ UNCHANGED <<clock, notes, selectedId, inflight, nextRev, edits, lastEdit, lastCall>>

\* "Delete" is clicked on an item: handleDelete of this render is called
DeleteBegin(id) ==
    /\ id \in Ids(notes)
    /\ Begun([kind |-> "delete", id |-> id, sel |-> selectedId, n |-> listCalls.begun])

\* handleDelete after its await
DeleteEnd ==
    \E c \in listCalls.pending :
        /\ c.kind = "delete"
        /\ LET next == Without(notes, c.id)
               sid  == SelectAfterDelete(c.sel, selectedId, c.id, next)
           IN /\ notes' = next
              /\ selectedId' = sid
              /\ ws' = Commit([ws EXCEPT !.error = Null], SelectedNote(next, sid),
                              SelectedNote(next, sid) # SelectedNote(notes, selectedId),
                              FALSE, clock)
              /\ lastEdit' = IF sid = selectedId /\ sid \in Ids(next) THEN lastEdit ELSE NoEdit
        /\ listCalls' = Ended(c)
        /\ UNCHANGED <<clock, inflight, nextRev, edits, lastCall>>

\* deleteItem rejects
DeleteRejects ==
    \E c \in listCalls.pending :
        /\ c.kind = "delete"
        /\ ws' = [ws EXCEPT !.error = Msg("Failed to delete note: error")]
        /\ listCalls' = Ended(c)
        /\ UNCHANGED <<clock, notes, selectedId, inflight, nextRev, edits, lastEdit, lastCall>>

\* Time passes while the list is worked on.
ListTick ==
    /\ clock + NoteTickMs <= MaxListTime
    /\ \A tmr \in ws.timers : tmr.due > clock
    /\ clock' = clock + NoteTickMs
    /\ UNCHANGED <<notes, selectedId, ws, inflight, nextRev, edits, lastEdit, lastCall,
                   listCalls>>

-----------------------------------------------------------------------------
(* Part V: properties of autosave *)

\* the autosave delay has passed since the last edit, and every timer that
\* was due has run
DelayPassed ==
    /\ lastEdit.at >= 0
    /\ clock >= lastEdit.at + AUTOSAVE_DELAY_MS
    /\ \A tmr \in ws.timers : tmr.due > clock

\* C29 as stated: once the user has edited the draft of the selected note to
\* something that the stored note does not hold and that no call under way
\* carries, and the autosave delay has
\* passed with no further edit and the same note selected, updateItem has
\* been called once since that edit, with the draft's id, the trimmed title
\* (or "Untitled note"), the content, item_type "note" and the trimmed tags
\* (null when empty).
C29_Original ==
    (DelayPassed /\ lastEdit.dirty)
        => /\ lastEdit.called = 1
           /\ lastCall.req = lastEdit.req

\* C31 as stated: typed text is never discarded.  Once the user has stopped
\* editing the selected note, no autosave timer is pending and every
\* updateItem call has resolved (none was rejected), the draft shown and the
\* note in the list hold the title and content of the last edit (the title
\* trimmed, "Untitled note" when blank).
C31_Original ==
    (/\ lastEdit.at >= 0
     /\ ws.timers = {}
     /\ inflight = {}
     /\ ~lastCall.rejected)
        => /\ ws.draft.present
           /\ TrimmedTitle(ws.draft) = lastEdit.req.title
           /\ ws.draft.content = lastEdit.req.content
           /\ SelectedNote(notes, selectedId).title = lastEdit.req.title
           /\ OrEmpty(SelectedNote(notes, selectedId).content) = lastEdit.req.content

\* C36 as stated: updateItem is called only after the user has edited the
\* draft; loading or selecting an item, whatever its stored title and tags,
\* makes no call.
C36_Original ==
    lastCall.n > 0 => edits > 0

\* C37 as stated: no updateItem call is under way for an item that the list
\* holds as a bookmark.
C37_Original ==
    \A c \in inflight : SelectedNote(notes, c.req.id).item_type # "bookmark"

\* C38 as stated: selectedId is null or the id of an item in the list, and
\* a delete that removes the selected item selects the first remaining
\* item, or null when none remains.
C38_Original ==
    /\ [](selectedId = 0 \/ selectedId \in Ids(notes))
    /\ [][(selectedId \in Ids(notes) /\ selectedId \notin Ids(notes'))
             => selectedId' = FirstId(notes')]_vars

\* C30: autosave is debounced.  At most one autosave timer is pending; a
\* pending timer is due no sooner than 500 ms after the last edit and
\* carries the current draft, so an edit leaves no older timer behind; a
\* call made since the last edit was made 500 ms or more after it, once,
\* and carried that edit's draft.
C30_Debounced ==
    /\ Cardinality(ws.timers) <= 1
    /\ \A tmr \in ws.timers :
        /\ tmr.due >= lastEdit.at + AUTOSAVE_DELAY_MS
        /\ tmr.due <= clock + AUTOSAVE_DELAY_MS
        /\ ws.draft.present
        /\ tmr.req = Request(ws.draft)
    /\ lastCall.n > 0 => lastCall.req = Request(lastCall.draft)
    /\ (lastEdit.at >= 0 /\ lastEdit.called > 0) =>
        /\ lastEdit.called = 1
        /\ lastCall.at >= lastEdit.at + AUTOSAVE_DELAY_MS
        /\ lastCall.req = lastEdit.req

\* an edit found a timer pending and replaced it, and the one call made
\* since carried a blank title as "Untitled note"
C30_Witness ==
    /\ lastEdit.cancelled
    /\ lastEdit.called = 1
    /\ lastCall.n = 1
    /\ lastCall.draft.title = <<" ">>
    /\ lastCall.req.title = UntitledNote

-----------------------------------------------------------------------------
(* Part IV: properties of the hook *)

\* the step completes a call or delivers an event
Completes(op) == last' # last /\ last'.op = op

\* C21: a status event delivered to the mounted hook makes serverStatus the
\* payload, isRunning its is_healthy, and error its message when is_healthy
\* is false and null when it is true; isLoading is left alone and the event
\* ends no call (nothing is thrown into a pending one).
C21_StatusAsData ==
    [][(Completes("event") /\ isMounted) =>
          /\ hook'.serverStatus = last'.status
          /\ hook'.isRunning = last'.status.is_healthy
          /\ hook'.error = IF last'.status.is_healthy THEN Null
                           ELSE Msg(last'.status.message)
          /\ hook'.isLoading = hook.isLoading
          /\ \A o \in HookOps : calls'[o].active = calls[o].active]_vars

\* C21 witness: a healthy event has cleared the error an unhealthy one, or a
\* failed call, had set; the hook is mounted.
C21_Witness ==
    /\ isMounted
    /\ last.op = "event"
    /\ last.status.is_healthy
    /\ hook.serverStatus = last.status
    /\ hook.error = Null
    /\ \E o \in HookOps : calls[o].active /\ calls[o].errSet

\* C22 as stated: when startServer() succeeds, isRunning is true, isLoading
\* is false and error is null.
C22_Original ==
    [][(Completes("start") /\ last'.result.ok) =>
          /\ hook'.isRunning
          /\ ~hook'.isLoading
          /\ hook'.error = Null]_vars

\* C22 amended: when startServer() succeeds, isRunning is true and isLoading
\* is false at once, no status event being needed; error and serverStatus
\* are left as they were, and error is null unless an unhealthy status event
\* or the failure of another call set it while the start was in flight.
C22_StartSucceeds ==
    [][(Completes("start") /\ last'.result.ok) =>
          /\ hook'.isRunning
          /\ ~hook'.isLoading
          /\ hook'.error = hook.error
          /\ hook'.serverStatus = hook.serverStatus
          /\ (~calls["start"].errSet => hook'.error = Null)]_vars

\* C22 witness: in Tauri a start has succeeded with no status event received;
\* isRunning is true, error null.
C22_Witness ==
    /\ tauri
    /\ last.op = "start"
    /\ last.result.ok
    /\ hook.isRunning
    /\ ~hook.isLoading
    /\ hook.error = Null
    /\ hook.serverStatus = NoStatus

\* C23: when stopServer() succeeds, isRunning is false, serverStatus is null
\* and isLoading is false.
C23_StopSucceeds ==
    [][(Completes("stop") /\ last'.result.ok) =>
          /\ ~hook'.isRunning
          /\ hook'.serverStatus = NoStatus
          /\ ~hook'.isLoading]_vars

\* C23 witness: in Tauri a stop has succeeded on a hook that showed a running
\* server or a status.
C23_Witness ==
    /\ tauri
    /\ last.op = "stop"
    /\ last.result.ok
    /\ last.cleared
    /\ ~hook.isRunning
    /\ hook.serverStatus = NoStatus

C25_OutsideTauri ==
    /\ [](~tauri =>
             /\ \A o \in HookOps : calls[o].commands = <<>>
             /\ last.commands = <<>>
             /\ (last.op \in {"start", "stop"} => last.result = Resolved)
             /\ (last.op = "refresh" =>
                    last.running = [ok |-> TRUE, value |-> FALSE, message |-> ""])
             /\ last.op # "check"
             /\ ~calls["check"].active
             /\ onTypesenseStatusUpdate(tauri) = "noop"
             /\ listeners = {}
             /\ subs["useTypesense"].reg \in {"none", "skipped"})
    /\ [][(~tauri /\ ~hook.isRunning /\ hook'.isRunning) => Completes("start")]_vars

\* C25 witness: outside Tauri the hook is mounted, a refresh has resolved to
\* false and a stop is in flight.
C25_Witness ==
    /\ ~tauri
    /\ isMounted
    /\ last.op = "refresh"
    /\ ~hook.isRunning
    /\ calls["stop"].active

\* C26: isTypesenseServerRunning never rejects; it resolves to the backend's
\* answer, and to false when the backend call fails.
C26_RunningNeverRejects ==
    last.op \in {"check", "refresh"} =>
        /\ last.running.ok
        /\ last.running.value = (tauri /\ last.backend = "true")
        /\ hook.error \notin {Msg("Failed to check initial server status: error"),
                              Msg("Failed to refresh server status: error")}

\* C26 witness: the backend call of a refresh failed while the server was
\* up; the refresh resolved to false and isRunning is false.
C26_Witness ==
    /\ last.op = "refresh"
    /\ last.backend = "error"
    /\ backendUp
    /\ ~hook.isRunning

\* C27: in Tauri a startServer/stopServer call has issued exactly its one
\* command; the client function resolved if the backend accepted, and
\* rejected with the prefixed message if not; a stop of a server that is not
\* started is rejected.
C27_OneCommandPerCall ==
    /\ []((tauri /\ last.op = "start") =>
             /\ last.commands = <<"start_typesense_server">>
             /\ last.result = IF last.backend = "ok" THEN Resolved
                              ELSE Rejected("Failed to start Typesense server: " \o last.backend))
    /\ []((tauri /\ last.op = "stop") =>
             /\ last.commands = <<"stop_typesense_server">>
             /\ last.result = IF last.backend = "ok" THEN Resolved
                              ELSE Rejected("Failed to stop Typesense server: " \o last.backend))
    /\ [](tauri => \A o \in {"start", "stop"} : calls[o].active => Len(calls[o].commands) = 1)
    /\ [][(tauri /\ Completes("stop") /\ ~backendUp) => ~last'.result.ok]_vars

\* C27 witness: a start and a stop are in flight after a stop was rejected
\* with NotRunningError.
C27_Witness ==
    /\ tauri
    /\ last.op = "stop"
    /\ last.result = Rejected("Failed to stop Typesense server: NotRunningError")
    /\ calls["start"].active
    /\ calls["stop"].active

\* C32 as stated: a status event that was applied is not overridden by the
\* initial check: when the check resolves after a status event set
\* serverStatus and isRunning, isRunning is still the is_healthy of that
\* status.
C32_Original ==
    [][(/\ Completes("check")
        /\ isMounted
        /\ hook.serverStatus.present
        /\ hook.isRunning = hook.serverStatus.is_healthy)
       => hook'.isRunning = hook'.serverStatus.is_healthy]_vars

\* C33 as stated: isLoading is true exactly while a startServer() or a
\* stopServer() call is in flight.
C33_Original ==
    hook.isLoading = (calls["start"].active \/ calls["stop"].active)

\* C34: a status event whose callback runs when the component is no longer
\* mounted changes nothing of the hook's state.
C34_NoChangeAfterUnmount ==
    [][(Completes("event") /\ ~isMounted) => hook' = hook]_vars

\* C34 witness: the component has unmounted, its listener is still registered
\* (registration completed late), and a status event that differs from what
\* the hook holds was delivered.
C34_Witness ==
    /\ subs["useTypesense"].life = "unmounted"
    /\ "useTypesense" \in listeners
    /\ last.op = "event"
    /\ last.status.is_healthy
    /\ hook.serverStatus # last.status
    /\ ~hook.isRunning

-----------------------------------------------------------------------------
(* Part III: properties of the subscriptions *)

IsPrefix(a, b) == Len(a) <= Len(b) /\ SubSeq(b, 1, Len(a)) = a

\* what was published after the first n statuses, with positions
PublishedSince(n) ==
    [i \in 1 .. (Len(published) - n) |-> [seq |-> n + i, status |-> published[n + i]]]

\* the events queued for l, as the callback would get them
Queued(l) ==
    [i \in 1 .. Len(queues[l]) |-> [seq |-> queues[l][i].seq, status |-> queues[l][i].payload]]

\* l has got, or has queued, every status published since it registered, in
\* order and once
GetsAllInOrder(l) == subs[l].received \o Queued(l) = PublishedSince(subs[l].since)

\* the subscribers that go through onTypesenseStatusUpdate
LibSubs == {"useTypesense", "caller"}

\* C16: for a subscriber of onTypesenseStatusUpdate, the callback's
\* invocations are, in order and once each, the payloads published since the
\* listener was registered: all of them up to the events still queued while
\* it is registered, a prefix of them at any time, none before registration.
C16_PerSubscriberFifo ==
    \A l \in LibSubs :
        /\ (subs[l].since = -1 => subs[l].received = <<>>)
        /\ (subs[l].since # -1 => IsPrefix(subs[l].received, PublishedSince(subs[l].since)))
        /\ (l \in listeners => GetsAllInOrder(l))

\* C16 witness: the hook's callback has got MaxPublished - 1 or more events,
\* nothing queued, and the statuses were not all the same.
C16_Witness ==
    /\ "useTypesense" \in listeners
    /\ Len(subs["useTypesense"].received) >= MaxPublished - 1
    /\ queues["useTypesense"] = <<>>
    /\ subs["useTypesense"].received[1].status # subs["useTypesense"].received[2].status

\* C17: while one registered subscriber has handled nothing of what is
\* queued for it, publish is not held up, every other registered subscriber
\* has got or has queued every status since it registered, in order, and
\* what is queued for it can be delivered.
C17_SlowSubscriber ==
    \A a \in listeners :
        (subs[a].received = <<>> /\ queues[a] # <<>>) =>
            /\ (Len(published) < MaxPublished => ENABLED (\E st \in Payloads : Publish(st)))
            /\ \A b \in listeners \ {a} :
                  /\ GetsAllInOrder(b)
                  /\ (queues[b] # <<>> => ENABLED Deliver(b))

\* C17 witness: the hook has drained nothing of two or more events while the
\* other subscriber has got them all.
C17_Witness ==
    /\ {"useTypesense", second} \subseteq listeners
    /\ subs["useTypesense"].received = <<>>
    /\ Len(queues["useTypesense"]) >= 2
    /\ queues[second] = <<>>
    /\ Len(subs[second].received) = Len(queues["useTypesense"])

\* C18: once the unsubscribe function of onTypesenseStatusUpdate has been
\* called the subscriber has no listener and its callback has got nothing
\* published after the call, however many times it is called and whatever
\* was queued; outside Tauri there is no listener and no callback invocation
\* at all.
C18_UnsubscribeDisposes ==
    /\ \A l \in LibSubs :
          subs[l].calls >= 1 =>
              /\ l \notin listeners
              /\ queues[l] = <<>>
              /\ \A i \in 1 .. Len(subs[l].received) :
                    subs[l].received[i].seq <= subs[l].disposedAt
    /\ (~tauri => /\ listeners = {}
                  /\ \A l \in AllSubs : subs[l].received = <<>> /\ subs[l].disposedAt = -1)

\* C18 witness: dispose() called twice, the first time with an event still
\* queued, after the callback had got one; statuses were published since.
C18_Witness ==
    /\ subs["caller"].calls = 2
    /\ subs["caller"].dropped >= 1
    /\ Len(subs["caller"].received) >= 1
    /\ Len(published) > subs["caller"].disposedAt

\* l's registration has completed and l has not disposed it
Subscribed(l) == subs[l].reg = "done" /\ subs[l].calls = 0

\* C19: with two subscribers, once one has disposed its subscription the
\* other, if it has registered and not disposed its own, still has its
\* listener and has got or has queued every status published since it
\* registered, in order.
C19_DisposeIsLocal ==
    \A o \in Subs : \A l \in Subs \ {o} :
        (subs[o].calls >= 1 /\ Subscribed(l)) =>
            /\ l \in listeners
            /\ GetsAllInOrder(l)

\* C19 witness: the hook has unsubscribed and App's handler has got a status
\* published after that.
C19_Witness ==
    /\ second = "App"
    /\ subs["useTypesense"].calls = 1
    /\ subs["useTypesense"].disposedAt >= 1
    /\ "App" \in listeners
    /\ Len(subs["App"].received) >= 1
    /\ subs["App"].received[Len(subs["App"].received)].seq > subs["useTypesense"].disposedAt

\* C20 as stated: once the component using useTypesense is unmounted and the
\* registration has completed, the hook's listener is disposed.
C20_Original ==
    (subs["useTypesense"].life = "unmounted" /\ subs["useTypesense"].reg = "done")
        => "useTypesense" \notin listeners

-----------------------------------------------------------------------------
(* Specifications *)

GateInit == GateMount /\ SupIdle /\ SubIdle /\ HookStart /\ NoteIdle

GateNext ==
    \/ (\E s \in {NoStatus} \cup ServerStatus : StatusChange(s)) /\ UNCHANGED <<supVars, subVars, hookVars, noteVars>>
    \/ TimerFire /\ UNCHANGED <<supVars, subVars, hookVars, noteVars>>
    \/ Tick /\ UNCHANGED <<supVars, subVars, hookVars, noteVars>>

GateSpec == GateInit /\ [][GateNext]_vars

SupInit == GateIdle /\ SupStart /\ SubIdle /\ HookStart /\ NoteIdle

SupNext ==
    \/ StartServer /\ UNCHANGED <<gateVars, subVars, hookVars, noteVars>>
    \/ (\E o \in SpawnOutcomes : SpawnResult(o)) /\ UNCHANGED <<gateVars, subVars, hookVars, noteVars>>
    \/ StopServer /\ UNCHANGED <<gateVars, subVars, hookVars, noteVars>>
    \/ ProcessExit /\ UNCHANGED <<gateVars, subVars, hookVars, noteVars>>
    \/ ForceKill /\ UNCHANGED <<gateVars, subVars, hookVars, noteVars>>
    \/ ConfirmTerminated /\ UNCHANGED <<gateVars, subVars, hookVars, noteVars>>
    \/ ProbeBegin /\ UNCHANGED <<gateVars, subVars, hookVars, noteVars>>
    \/ (\E n \in NetOutcomes : ProbeEnd(n)) /\ UNCHANGED <<gateVars, subVars, hookVars, noteVars>>

SupSpec == SupInit /\ [][SupNext]_vars

\* The Supervisor with what its scheduling guarantees once stop() is
\* accepted: the grace period of ProcessHandle.terminate is bounded, so the
\* force-kill of a process that is still alive is taken; and so is the
\* confirmation of a process that has ended.  Nothing is assumed of the
\* process, of the probes or of the callers.
SupFairSpec ==
    /\ SupSpec
    /\ WF_vars(ForceKill /\ UNCHANGED <<gateVars, subVars, hookVars, noteVars>>)
    /\ WF_vars(ConfirmTerminated /\ UNCHANGED <<gateVars, subVars, hookVars, noteVars>>)

\* The subscriptions alone: the Supervisor is not started, its statuses are
\* whatever the backend emits.
SupQuiet ==
    /\ tauri \in BOOLEAN
    /\ supState = "Stopped"
    /\ record = 0
    /\ alive = {}
    /\ nextPid = 1
    /\ failures = 0
    /\ threshold = DefaultFailureThreshold
    /\ emitted = <<>>
    /\ probePid = 0
    /\ spawning = FALSE
    /\ hist = <<>>
    /\ failRun = <<>>
    /\ lastProbe = "none"

SubInit ==
    /\ GateIdle
    /\ SupQuiet
    /\ second \in {"App", "caller"}
    /\ (second = "App" => tauri)
    /\ SubStart
    /\ HookStart
    /\ NoteIdle

SubNext ==
    \/ HookMount /\ UNCHANGED <<gateVars, supVars, hookVars, noteVars>>
    \/ HookRegistered /\ UNCHANGED <<gateVars, supVars, hookVars, noteVars>>
    \/ HookUnmount /\ UNCHANGED <<gateVars, supVars, hookVars, noteVars>>
    \/ AppMount /\ UNCHANGED <<gateVars, supVars, hookVars, noteVars>>
    \/ AppRegistered /\ UNCHANGED <<gateVars, supVars, hookVars, noteVars>>
    \/ AppUnmount /\ UNCHANGED <<gateVars, supVars, hookVars, noteVars>>
    \/ CallerSubscribe /\ UNCHANGED <<gateVars, supVars, hookVars, noteVars>>
    \/ CallerSubscribed /\ UNCHANGED <<gateVars, supVars, hookVars, noteVars>>
    \/ CallerDispose /\ UNCHANGED <<gateVars, supVars, hookVars, noteVars>>
    \/ (\E st \in Payloads : Publish(st)) /\ UNCHANGED <<gateVars, supVars, hookVars, noteVars>>
    \/ (\E l \in AllSubs : Deliver(l)) /\ UNCHANGED <<gateVars, supVars, hookVars, noteVars>>

SubSpec == SubInit /\ [][SubNext]_vars

\* The hook alone, with its own subscription; the backend answers as a
\* Supervisor that is started or not.
HookInit == GateIdle /\ SupQuiet /\ SubIdle /\ HookStart /\ NoteIdle

HookNext ==
    \/ HkMount /\ UNCHANGED <<gateVars, supVars, noteVars>>
    \/ HkRegistered /\ UNCHANGED <<gateVars, supVars, noteVars>>
    \/ HkUnmount /\ UNCHANGED <<gateVars, supVars, noteVars>>
    \/ (\E st \in Payloads : StatusEvent(st)) /\ UNCHANGED <<gateVars, supVars, noteVars>>
    \/ (\E a \in {"true", "false", "error"} : CheckEnd(a)) /\ UNCHANGED <<gateVars, supVars, noteVars>>
    \/ StartBegin /\ UNCHANGED <<gateVars, supVars, noteVars>>
    \/ (\E a \in {"ok", "PortInUse", "AlreadyRunningError"} : StartEnd(a))
          /\ UNCHANGED <<gateVars, supVars, noteVars>>
    \/ StopBegin /\ UNCHANGED <<gateVars, supVars, noteVars>>
    \/ (\E a \in {"ok", "NotRunningError"} : StopEnd(a)) /\ UNCHANGED <<gateVars, supVars, noteVars>>
    \/ RefreshBegin /\ UNCHANGED <<gateVars, supVars, noteVars>>
    \/ (\E a \in {"true", "false", "error"} : RefreshEnd(a)) /\ UNCHANGED <<gateVars, supVars, noteVars>>

HookSpec == HookInit /\ [][HookNext]_vars

\* NotesWorkspace with its items loaded; the search sidecar plays no part.
NoteInit == GateIdle /\ SupIdle /\ SubIdle /\ HookStart /\ NoteStart

NoteNext ==
    \/ (\E v \in Titles : EditTitle(v)) /\ UNCHANGED <<gateVars, supVars, subVars, hookVars>>
    \/ (\E v \in Contents : EditContent(v)) /\ UNCHANGED <<gateVars, supVars, subVars, hookVars>>
    \/ (\E id \in 1 .. 2 : Select(id)) /\ UNCHANGED <<gateVars, supVars, subVars, hookVars>>
    \/ AutosaveFire /\ UNCHANGED <<gateVars, supVars, subVars, hookVars>>
    \/ UpdateResolves /\ UNCHANGED <<gateVars, supVars, subVars, hookVars>>
    \/ UpdateRejects /\ UNCHANGED <<gateVars, supVars, subVars, hookVars>>
    \/ NoteTick /\ UNCHANGED <<gateVars, supVars, subVars, hookVars>>

NoteSpec == NoteInit /\ [][NoteNext]_vars

\* NotesWorkspace from its mount: the items are loaded, then selected,
\* created and deleted; the user types nothing into the editor.
ListInit == GateIdle /\ SupIdle /\ SubIdle /\ HookStart /\ NoteIdle

ListNext ==
    \/ (\E fetched \in ListStores : LoadResolves(fetched)) /\ UNCHANGED <<gateVars, supVars, subVars, hookVars>>
    \/ LoadRejects /\ UNCHANGED <<gateVars, supVars, subVars, hookVars>>
    \/ (\E i \in 1 .. Len(notes) : Select(notes[i].id)) /\ UNCHANGED <<gateVars, supVars, subVars, hookVars>>
    \/ CreateNoteBegin /\ UNCHANGED <<gateVars, supVars, subVars, hookVars>>
    \/ CreateNoteEnd /\ UNCHANGED <<gateVars, supVars, subVars, hookVars>>
    \/ CreateBookmarkBegin /\ UNCHANGED <<gateVars, supVars, subVars, hookVars>>
    \/ (\E title \in BookmarkTitles : CreateBookmarkEnd(title)) /\ UNCHANGED <<gateVars, supVars, subVars, hookVars>>
    \/ CreateRejects /\ UNCHANGED <<gateVars, supVars, subVars, hookVars>>
    \/ (\E i \in 1 .. Len(notes) : DeleteBegin(notes[i].id)) /\ UNCHANGED <<gateVars, supVars, subVars, hookVars>>
    \/ DeleteEnd /\ UNCHANGED <<gateVars, supVars, subVars, hookVars>>
    \/ DeleteRejects /\ UNCHANGED <<gateVars, supVars, subVars, hookVars>>
    \/ AutosaveFire /\ UNCHANGED <<gateVars, supVars, subVars, hookVars>>
    \/ UpdateResolves /\ UNCHANGED <<gateVars, supVars, subVars, hookVars>>
    \/ UpdateRejects /\ UNCHANGED <<gateVars, supVars, subVars, hookVars>>
    \/ ListTick /\ UNCHANGED <<gateVars, supVars, subVars, hookVars>>

ListSpec == ListInit /\ [][ListNext]_vars

-----------------------------------------------------------------------------
(* Part I: properties of the warning gate *)

HealthDep == IsHealthyDep(serverStatus)

\* C1: the warning is shown only if the observed status has been
\* is_healthy=false without interruption for at least the configured delay:
\* whenever the banner is up, an unhealthy streak is running and it started
\* at least typesenseWarningDelayMs ago.
C1_WarnOnlyAfterDelay ==
    showTypesenseWarning =>
        /\ unhealthySince # -1
        /\ now - unhealthySince >= typesenseWarningDelayMs

\* C1 witness: the banner is up after an unhealthy streak that began after a
\* healthy status, exactly one delay earlier.
C1_Witness ==
    /\ showTypesenseWarning
    /\ Len(statusLog) >= 2
    /\ statusLog[Len(statusLog) - 1].h = "true"
    /\ unhealthySince > 0
    /\ now = unhealthySince + typesenseWarningDelayMs

\* C2: whenever the status is healthy the gate is reset: no timer is pending
\* (the ref is null and the window holds no timer) and the banner is hidden,
\* whatever the gate was before the healthy status arrived.
C2_HealthyResets ==
    (HealthDep = "true") =>
        /\ warningTimeoutRef = 0
        /\ timers = {}
        /\ ~showTypesenseWarning

\* C2 witness: a healthy status arrived while the banner was up (the streak
\* before it had outlasted the delay), and the gate is reset.
C2_Witness ==
    /\ Len(statusLog) = 2
    /\ statusLog[1].h = "false"
    /\ statusLog[2].h = "true"
    /\ statusLog[2].at > statusLog[1].at + typesenseWarningDelayMs
    /\ ~showTypesenseWarning
    /\ timers = {}

ScenarioC3 ==
    << [h |-> "false", at |-> 0], [h |-> "true", at |-> 5000], [h |-> "false", at |-> 6000] >>

InScenarioC3 ==
    /\ typesenseWarningDelayMs = TYPESENSE_WARNING_DELAY_MS
    /\ Len(statusLog) <= Len(ScenarioC3)
    /\ statusLog = SubSeq(ScenarioC3, 1, Len(statusLog))
    /\ (Len(statusLog) < Len(ScenarioC3) => now <= ScenarioC3[Len(statusLog) + 1].at)

\* (InScenarioC3: the events so far are the scenario's, each at its time, and
\* the next one is not overdue.)
\* C3: with delay 10 s and the events unhealthy@0, healthy@5s, unhealthy@6s
\* the banner stays hidden at every moment up to a full delay after the
\* second unhealthy status; the healthy status cancels the pending timer and
\* the timer armed at 6 s is due a full delay later, at 16 s.
C3_Hysteresis ==
    InScenarioC3 =>
        /\ (now < 6000 + TYPESENSE_WARNING_DELAY_MS => ~showTypesenseWarning)
        /\ (Len(statusLog) = 2 => timers = {})
        /\ (Len(statusLog) = 3 /\ ~showTypesenseWarning =>
                timers = {[id |-> warningTimeoutRef, due |-> 6000 + TYPESENSE_WARNING_DELAY_MS]})

\* C3 witness: the whole scenario has happened, it is past 10 s (where the
\* first timer would have fired) and the banner is hidden.
C3_Witness ==
    /\ InScenarioC3
    /\ Len(statusLog) = 3
    /\ now = 15000
    /\ ~showTypesenseWarning

SingleUnhealthyAtZero ==
    /\ Len(statusLog) = 1
    /\ statusLog[1].h = "false"

\* C4: after a single unhealthy status at t=0 and nothing else, the banner is
\* hidden before t=delay, the one timer pending until then is due at t=delay,
\* and from the moment it fires the banner is up and stays up (no timer is
\* left that could change it) for as long as no further status arrives.
C4_TriggerAtDelay ==
    SingleUnhealthyAtZero =>
        /\ (now < typesenseWarningDelayMs => ~showTypesenseWarning)
        /\ (now > typesenseWarningDelayMs => showTypesenseWarning)
        /\ (~showTypesenseWarning =>
                /\ warningTimeoutRef # 0
                /\ timers = {[id |-> warningTimeoutRef, due |-> typesenseWarningDelayMs]})
        /\ (showTypesenseWarning => warningTimeoutRef = 0 /\ timers = {})

\* C4 witness: the banner went up and is still up well after the delay.
C4_Witness ==
    /\ SingleUnhealthyAtZero
    /\ showTypesenseWarning
    /\ now > typesenseWarningDelayMs + TickMs

\* C28: at most one warning timer is pending; a pending timer is the one
\* warningTimeoutRef holds, the latest status is unhealthy, the warning is not
\* shown, and the timer is due one delay after the first unhealthy status of
\* the streak; an unhealthy status that follows an unhealthy one (whatever
\* its message) leaves the timer and the warning as they are.
C28_OneTimerPerStreak ==
    /\ [](Cardinality(timers) <= 1)
    /\ [](\A tmr \in timers :
             /\ IsHealthyDep(serverStatus) = "false"
             /\ ~showTypesenseWarning
             /\ tmr.id = warningTimeoutRef
             /\ tmr.due = unhealthySince + typesenseWarningDelayMs)
    /\ [][(/\ IsHealthyDep(serverStatus) = "false"
           /\ IsHealthyDep(serverStatus') = "false"
           /\ serverStatus' # serverStatus)
          => UNCHANGED <<timers, warningTimeoutRef, nextTimerId, showTypesenseWarning>>]_vars

\* C28 witness: a second unhealthy status arrived some time after the first
\* and the timer of the first is still the one pending.
C28_Witness ==
    /\ timers # {}
    /\ Len(statusLog) >= 2
    /\ statusLog[Len(statusLog)].h = "false"
    /\ statusLog[Len(statusLog) - 1].h = "false"
    /\ unhealthySince >= 0
    /\ statusLog[Len(statusLog)].at > unhealthySince
    /\ now > statusLog[Len(statusLog)].at

\* C35: while the status the component knows is null, the warning is not
\* shown and no warning timer is pending; a pending timer, and a shown
\* warning, imply an is_healthy=false status, and a step that starts a timer
\* ends in one.
C35_NullStatusNoWarning ==
    /\ [](serverStatus = NoStatus => (~showTypesenseWarning /\ timers = {} /\ warningTimeoutRef = 0))
    /\ []((timers # {} \/ showTypesenseWarning) =>
              (serverStatus.present /\ ~serverStatus.is_healthy))
    /\ [][timers' \ timers # {} => (serverStatus'.present /\ ~serverStatus'.is_healthy)]_vars

\* C35 witness: the status went from unhealthy, with the warning shown, back
\* to null, and time has passed since.
C35_Witness ==
    /\ serverStatus = NoStatus
    /\ Len(statusLog) >= 2
    /\ statusLog[Len(statusLog) - 1].h = "false"
    /\ statusLog[Len(statusLog)].at >= statusLog[Len(statusLog) - 1].at + typesenseWarningDelayMs
    /\ now > statusLog[Len(statusLog)].at
    /\ ~showTypesenseWarning

====
